---- MODULE Spec2Model ----
(***************************************************************************)
(* A model of the merchandise forecasting pipeline:                        *)
(*   - the prediction service (src/flask_approach/app.py): artifact        *)
(*     loading, /predict with its batch loop, process_batch;               *)
(*   - process_inventory_file (src/prediction/prediction-streamlit.py and  *)
(*     src/stream_all_products_for_upcoming_show.py);                      *)
(*   - update_venue_details (same two files);                              *)
(*   - the GET endpoints /health and /model-info of the service.           *)
(* Text is modelled as sequences of one-character strings so that split,   *)
(* strip, lower and substring tests are computed, not assumed.             *)
(***************************************************************************)
EXTENDS Integers, Sequences, FiniteSets, TLC

VARIABLES
    \* ---- prediction service (app.py) ----
    LAZY_LOAD,          \* app.py:36, read once from the environment
    MEMORY_OPTIMIZED,   \* app.py:37, read once from the environment
    cdn,                \* what each artifact URL currently serves (None = download fails)
    model, scaler, encoder, model_loaded,   \* app.py:30-33
    pc,                 \* "startup" | "serving" | "batching" | "exited"
    data,               \* request.json of the request in progress / last served
    i,                  \* loop variable of the batch loop (app.py:159)
    results,            \* local `results` of predict
    request,            \* the JSON body the client posts to /predict
    batch_calls,        \* number of process_batch invocations for the current request
    response,           \* the last response returned by /predict
    probe,              \* the last answer of /health, /model-info or a load_models call
    \* ---- process_inventory_file ----
    inventory_df,       \* [columns, rows]: the uploaded inventory table
    band_name,          \* the selected band
    genre_df,           \* [has_band_name, rows]: the genre map
    price_df,           \* the price ledger, a list of rows
    inv_pc,             \* "input" | "prediction-streamlit" | "stream" | "script"
    inv_result,         \* what process_inventory_file returned and showed
    \* ---- update_venue_details ----
    tour_df,            \* the tour ledger, a list of rows
    band_name_for_lookup,
    output_df,          \* the records being updated in place
    venue_lookup,       \* the dict, as a list of <<key, entry>> in insertion order
    venue_pc,           \* "input" | "done"
    warnings            \* st.warning calls, in order

inv_vars == <<inventory_df, band_name, genre_df, price_df, inv_pc, inv_result>>

svc_vars == <<LAZY_LOAD, MEMORY_OPTIMIZED, cdn, model, scaler, encoder, model_loaded,
              pc, request, data, i, results, batch_calls, response>>

venue_vars == <<tour_df, band_name_for_lookup, output_df, venue_lookup, venue_pc,
                warnings>>

probe_vars == <<probe>>

vars == <<svc_vars, inv_vars, venue_vars, probe_vars>>

\* what each component leaves alone
non_svc_vars == <<inv_vars, venue_vars, probe_vars>>
non_inv_vars == <<svc_vars, venue_vars, probe_vars>>
non_venue_vars == <<svc_vars, inv_vars, probe_vars>>

\* Python's None
None == [kind |-> "None"]

\* Floats that can be missing or non-finite: a finite value v, nan, inf or -inf
Num(v) == [kind |-> "num", v |-> v]
NaN == [kind |-> "nan", v |-> 0]
PosInf == [kind |-> "inf", v |-> 0]
NegInf == [kind |-> "-inf", v |-> 0]

(***************************************************************************)
(* Text helpers (Python str methods on sequences of characters).           *)
(***************************************************************************)
UpperChars == <<"A","B","C","D","E","F","G","H","I","J","K","L","M",
                "N","O","P","Q","R","S","T","U","V","W","X","Y","Z">>
LowerChars == <<"a","b","c","d","e","f","g","h","i","j","k","l","m",
                "n","o","p","q","r","s","t","u","v","w","x","y","z">>

LowerChar(c) ==
    IF \E k \in DOMAIN UpperChars : UpperChars[k] = c
    THEN LowerChars[CHOOSE k \in DOMAIN UpperChars : UpperChars[k] = c]
    ELSE c

\* str.lower()
Lower(s) == [k \in 1..Len(s) |-> LowerChar(s[k])]

\* '\xa0', the non-breaking space
NBSP == "nbsp"

\* the characters str.strip() removes (str.isspace)
Whitespace == {" ", "\t", "\n", NBSP}

RECURSIVE LStrip(_)
LStrip(s) == IF s # <<>> /\ Head(s) \in Whitespace THEN LStrip(Tail(s)) ELSE s

RECURSIVE RStrip(_)
RStrip(s) ==
    IF s # <<>> /\ s[Len(s)] \in Whitespace THEN RStrip(SubSeq(s, 1, Len(s) - 1)) ELSE s

\* str.strip()
Strip(s) == RStrip(LStrip(s))

\* sub occurs in s at position k
OccursAt(s, sub, k) ==
    /\ k >= 1
    /\ k + Len(sub) - 1 <= Len(s)
    /\ \A j \in 1..Len(sub) : s[k + j - 1] = sub[j]

\* Python `sub in s`
Contains(s, sub) == \E k \in 1..(Len(s) + 1) : OccursAt(s, sub, k)

\* str.find(sub) as a 1-based position, 0 when absent
Find(s, sub) ==
    IF Contains(s, sub)
    THEN CHOOSE k \in 1..(Len(s) + 1) :
            OccursAt(s, sub, k) /\ \A j \in 1..(k - 1) : ~OccursAt(s, sub, j)
    ELSE 0

\* str.split(sep) for a non-empty separator
RECURSIVE Split(_, _)
Split(s, sep) ==
    LET k == Find(s, sep)
    IN  IF k = 0 THEN <<s>>
        ELSE <<SubSeq(s, 1, k - 1)>> \o Split(SubSeq(s, k + Len(sep), Len(s)), sep)

\* np.round / round(x, n): round num/den (den > 0) to the nearest integer, ties to even
RoundHalfEven(num, den) ==
    LET q == num \div den
        r == num % den
    IN  IF 2 * r < den THEN q
        ELSE IF 2 * r > den THEN q + 1
        ELSE IF q % 2 = 0 THEN q ELSE q + 1

(***************************************************************************)
(* The prediction service: src/flask_approach/app.py                       *)
(***************************************************************************)
batch_size == 100
batch_threshold == 100

\* Feature lists (app.py:45-46).  The categorical loop treats every feature the
\* same way; the model carries the raw categorical fields below and leaves out
\* Genre, venue name, venue state, product size and the derived calendar
\* columns, which go through the identical normalise/substitute/transform loop.
input_numerical_features == <<"attendance", "product_price">>
input_categorical_features == <<"artistName", "venue_city", "productType">>

unknown_category == <<"u","n","k","n","o","w","n","_","c","a","t","e","g","o","r","y">>

\* Text values used by the requests
T_Air == <<"A","i","r">>
T_Tee == <<"T","e","e">>
T_Hat == <<"H","a","t">>
T_Bo == <<"B","o">>
T_BoPadded == <<"B","o",NBSP>>
T_Zz == <<"Z","z">>

\* ---- the artifacts the CDN can serve ----
\* robust_scaler_retrained.joblib: one fitted scaler per numerical feature
ScalerArtifact == [attendance |-> [center |-> 2], product_price |-> [center |-> 1]]

\* label_encoder_retrained.joblib: one fitted encoder (its classes_) per feature.
\* Whether the fitted vocabularies hold the 'unknown_category' class is a
\* property of the artifact, not of this repository: both are possible.
EncoderWithUnknown ==
    [artistName |-> <<Lower(T_Air), unknown_category>>,
     venue_city |-> <<Lower(T_Bo), unknown_category>>,
     productType |-> <<Lower(T_Hat), Lower(T_Tee), unknown_category>>]
EncoderWithoutUnknown ==
    [artistName |-> <<Lower(T_Air)>>,
     venue_city |-> <<Lower(T_Bo)>>,
     productType |-> <<Lower(T_Hat), Lower(T_Tee)>>]

\* model_retrained.joblib: a regressor applied row by row.  Each is given by
\* the doubled value of its prediction, so that x.5 predictions occur.
RegressorA == [bias |-> 1, w_att |-> 2, w_price |-> 3, w_city |-> 0]
RegressorB == [bias |-> -3, w_att |-> 2, w_price |-> 1, w_city |-> 2]

Scalers == {ScalerArtifact}
Encoders == {EncoderWithUnknown, EncoderWithoutUnknown}
Regressors == {RegressorA, RegressorB}

\* download_and_load_model: the loaded object, or None when anything fails
download_and_load_model(url) == cdn[url]

\* scaler[feature].transform: a missing value stays missing
ScaleValue(sc, feature, v) == IF v = NaN THEN NaN ELSE Num(v.v - sc[feature].center)

\* app.py:210, .astype(str).str.strip().str.replace('\xa0', ' ').str.lower()
ReplaceNbsp(s) == [k \in 1..Len(s) |-> IF s[k] = NBSP THEN " " ELSE s[k]]
NormalizeCategory(v) == Lower(ReplaceNbsp(Strip(v)))

InClasses(classes, v) == \E k \in 1..Len(classes) : classes[k] = v

\* a substitution that leaves every value as it is
SubstituteUnknown_keep(classes, v) == v

\* app.py:211, values outside classes_ become 'unknown_category'
SubstituteUnknown(classes, v) == IF InClasses(classes, v) THEN v ELSE unknown_category

\* app.py:212, LabelEncoder.transform: the position in classes_, and a
\* ValueError (EncodeRaises) for a label the encoder was not fitted on
EncodeRaises == [kind |-> "raise", v |-> 0]
EncoderTransform(classes, v) ==
    IF InClasses(classes, v)
    THEN Num((CHOOSE k \in 1..Len(classes) : classes[k] = v) - 1)
    ELSE EncodeRaises

EncodeValue(enc, feature, v) ==
    EncoderTransform(enc[feature], SubstituteUnknown(enc[feature], NormalizeCategory(v)))

\* pd.to_datetime on a date given as <<year, month, day>>; a text that is no
\* date (here: a month or day out of range) raises
IsDate(d) ==
    /\ Len(d) = 3
    /\ d[2] \in 1..12
    /\ d[3] \in 1..31

\* one row of df_scaled_encoded (app.py:198-215)
FeatureRow(r, sc, enc) ==
    [attendance |-> ScaleValue(sc, "attendance", r.attendance),
     product_price |-> ScaleValue(sc, "product_price", r.product_price),
     artistName |-> EncodeValue(enc, "artistName", r.artistName),
     venue_city |-> EncodeValue(enc, "venue_city", r.venue_city),
     productType |-> EncodeValue(enc, "productType", r.productType)]

\* a dropna that keeps every row
HasNoNA_all(x) == TRUE

\* dropna keeps the rows without a missing value (app.py:219)
HasNoNA(x) == \A f \in DOMAIN x : x[f] # NaN

\* model.predict on one row: the doubled prediction
ModelPredict2(m, x) ==
    m.bias + m.w_att * x.attendance.v + m.w_price * x.product_price.v
           + m.w_city * x.venue_city.v

\* the groupby key of app.py:228
GroupKey(r) == <<r.artistName, r.showDate, r.productType>>

\* The sequence f[1], ..., f[n] as a list built once (a pandas column)
Column(f, n) == SubSeq(f, 1, n)

\* the sum of qty over the rows lo..hi that belong to group g
RECURSIVE SumQty(_, _, _, _, _)
SumQty(rows, qty, g, lo, hi) ==
    IF lo > hi THEN 0
    ELSE IF lo = hi THEN (IF GroupKey(rows[lo]) = g THEN qty[lo] ELSE 0)
    ELSE LET mid == (lo + hi) \div 2
         IN  SumQty(rows, qty, g, lo, mid) + SumQty(rows, qty, g, mid + 1, hi)

\* a share cut after two decimals instead of rounded
Share_truncated(x, total) ==
    IF total > 0 THEN Num((x * 10000) \div total)
    ELSE IF total < 0 THEN Num(((0 - x) * 10000) \div (0 - total))
    ELSE IF x > 0 THEN PosInf
    ELSE IF x < 0 THEN NegInf
    ELSE NaN

\* round((x / x.sum()) * 100, 2), in hundredths of a percent; the division by a
\* zero sum gives the float inf, -inf or nan
Share(x, total) ==
    IF total > 0 THEN Num(RoundHalfEven(x * 10000, total))
    ELSE IF total < 0 THEN Num(RoundHalfEven((0 - x) * 10000, 0 - total))
    ELSE IF x > 0 THEN PosInf
    ELSE IF x < 0 THEN NegInf
    ELSE NaN

\* x.sum() of every group (app.py:228)
RECURSIVE GroupTotals(_, _, _)
GroupTotals(rows, qty, keys) ==
    IF keys = {} THEN <<>>
    ELSE LET g == CHOOSE k \in keys : TRUE
         IN  (g :> SumQty(rows, qty, g, 1, Len(rows))) @@ GroupTotals(rows, qty, keys \ {g})

Raised == [raised |-> TRUE, rows |-> <<>>]

\* process_batch (app.py:184-248) with the globals it reads as parameters
process_batch(batch_data, m, sc, enc) ==
    IF m = None \/ sc = None \/ enc = None THEN Raised
    ELSE IF \E j \in 1..Len(batch_data) : ~IsDate(batch_data[j].showDate) THEN Raised
    ELSE
    LET n == Len(batch_data)
        df_scaled_encoded == Column([j \in 1..n |-> FeatureRow(batch_data[j], sc, enc)], n)
    IN  IF \E j \in 1..n : \E f \in 1..Len(input_categorical_features) :
              df_scaled_encoded[j][input_categorical_features[f]] = EncodeRaises
        THEN Raised
        ELSE
        LET kept == SelectSeq(df_scaled_encoded, HasNoNA)
            predictions == Column([k \in 1..Len(kept) |-> ModelPredict2(m, kept[k])],
                                  Len(kept))
        IN  \* model.predict raises on an empty matrix; the column assignment of
            \* app.py:225 raises when dropna removed a row
            IF Len(kept) = 0 \/ Len(predictions) # n THEN Raised
            ELSE
            LET qty == Column([j \in 1..n |-> RoundHalfEven(predictions[j], 2)], n)
                keys == {GroupKey(batch_data[j]) : j \in 1..n}
                total == GroupTotals(batch_data, qty, keys)
            IN  [raised |-> FALSE,
                 rows |-> [j \in 1..n |->
                    [artistName |-> batch_data[j].artistName,
                     showDate |-> batch_data[j].showDate,
                     venue_city |-> batch_data[j].venue_city,
                     productType |-> batch_data[j].productType,
                     attendance |-> batch_data[j].attendance,
                     product_price |-> batch_data[j].product_price,
                     Item_Name |-> batch_data[j].Item_Name,
                     predicted_sales_quantity |-> qty[j],
                     pct_item_sales_per_category |->
                         Share(qty[j], total[GroupKey(batch_data[j])])]]]

\* ---- requests ----
MaxSmall == 2
MaxBatches == 2
MaxTail == 1
MidTail == 50

ShowDate == <<2025, 9, 12>>
NotADate == <<2025, 13, 1>>

KTee == [artistName |-> T_Air, showDate |-> ShowDate, venue_city |-> T_Bo,
         productType |-> T_Tee, attendance |-> Num(4), product_price |-> Num(2)]
KTeeSmall == [KTee EXCEPT !.venue_city = T_BoPadded, !.attendance = Num(2),
                          !.product_price = Num(1)]
KHat == [KTee EXCEPT !.productType = T_Hat, !.attendance = Num(2),
                     !.product_price = Num(3)]
KNoPrice == [KTee EXCEPT !.product_price = NaN]
KOov == [KTee EXCEPT !.venue_city = T_Zz]
KBadDate == [KTee EXCEPT !.showDate = NotADate]

\* the record kinds a request mixes: <<first kind, second kind>>
RequestPairs ==
    {<<KTee, KTee>>, <<KTee, KTeeSmall>>, <<KTeeSmall, KTeeSmall>>, <<KTeeSmall, KHat>>,
     <<KTee, KNoPrice>>, <<KNoPrice, KTee>>, <<KTee, KOov>>, <<KTee, KBadDate>>}

Layouts == {"head1", "firstbatch", "alternate"}

RequestSizes ==
    (0..MaxSmall) \cup
    {k * batch_size + e : k \in 1..MaxBatches, e \in (0..MaxTail) \cup {MidTail}}

\* a request of n records; record j carries its position as Item Name
MakeRequest(n, layout, pair) ==
    [j \in 1..n |->
        LET first == CASE layout = "head1" -> j <= 1
                       [] layout = "firstbatch" -> j <= batch_size
                       [] OTHER -> j % 2 = 1
            kind == IF first THEN pair[1] ELSE pair[2]
        IN  [artistName |-> kind.artistName, showDate |-> kind.showDate,
             venue_city |-> kind.venue_city, productType |-> kind.productType,
             attendance |-> kind.attendance, product_price |-> kind.product_price,
             Item_Name |-> j]]

Requests ==
    {MakeRequest(n, layout, pair) : n \in RequestSizes, layout \in Layouts, pair \in RequestPairs}

\* ---- responses of /predict ----
NoResponse == [status |-> "none", code |-> 0, message |-> "", data |-> <<>>, record_count |-> 0]
ErrorResponse(code, message) ==
    [status |-> "error", code |-> code, message |-> message, data |-> <<>>, record_count |-> 0]
SuccessResponse(rows) ==
    [status |-> "success", code |-> 200, message |-> "", data |-> rows,
     record_count |-> Len(rows)]

Globals(m, sc, enc, loaded, ret) ==
    [model |-> m, scaler |-> sc, encoder |-> enc, model_loaded |-> loaded, ret |-> ret]

\* a load that looks at the model only before it sets model_loaded
load_models_modelonly ==
    IF model_loaded THEN Globals(model, scaler, encoder, model_loaded, TRUE)
    ELSE IF LAZY_LOAD /\ ~model_loaded
    THEN Globals(model, scaler, encoder, model_loaded, TRUE)
    ELSE
    LET sc == download_and_load_model("SCALER_URL")
        enc == download_and_load_model("ENCODER_URL")
        m == download_and_load_model("MODEL_URL")
    IN  IF m # None
        THEN Globals(m, sc, enc, TRUE, TRUE)
        ELSE Globals(m, sc, enc, model_loaded, FALSE)

\* a load without the early return of a loaded service
load_models_reload ==
    IF LAZY_LOAD /\ ~model_loaded
    THEN Globals(model, scaler, encoder, model_loaded, TRUE)
    ELSE
    LET sc == download_and_load_model("SCALER_URL")
        enc == download_and_load_model("ENCODER_URL")
        m == download_and_load_model("MODEL_URL")
    IN  IF m # None /\ sc # None /\ enc # None
        THEN Globals(m, sc, enc, TRUE, TRUE)
        ELSE Globals(m, sc, enc, model_loaded, FALSE)

\* load_models (app.py:73-114): the globals it leaves and its return value
load_models ==
    IF model_loaded THEN Globals(model, scaler, encoder, model_loaded, TRUE)
    ELSE IF LAZY_LOAD /\ ~model_loaded
    THEN Globals(model, scaler, encoder, model_loaded, TRUE)
    ELSE
    LET sc == download_and_load_model("SCALER_URL")
        enc == download_and_load_model("ENCODER_URL")
        m == download_and_load_model("MODEL_URL")
    IN  IF m # None /\ sc # None /\ enc # None
        THEN Globals(m, sc, enc, TRUE, TRUE)
        ELSE Globals(m, sc, enc, model_loaded, FALSE)

\* module startup (app.py:292-300)
module_startup ==
    /\ pc = "startup"
    /\ IF ~LAZY_LOAD
       THEN LET load_status == load_models
            IN  /\ model' = load_status.model
                /\ scaler' = load_status.scaler
                /\ encoder' = load_status.encoder
                /\ model_loaded' = load_status.model_loaded
                /\ pc' = IF ~load_status.ret /\ ~LAZY_LOAD THEN "exited" ELSE "serving"
       ELSE /\ pc' = "serving"
            /\ UNCHANGED <<model, scaler, encoder, model_loaded>>
    /\ UNCHANGED <<LAZY_LOAD, MEMORY_OPTIMIZED, cdn, request, data, i, results, batch_calls,
                   response>>
    /\ UNCHANGED non_svc_vars

\* Mutant of models_missing: the not-ready check left out
models_missing_unchecked(m, sc, enc) == FALSE

\* the not-ready check of app.py:142
models_missing(m, sc, enc) == m = None \/ sc = None \/ enc = None

\* Mutant of BatchSlice: every batch is cut from the start of the data
BatchSlice_fromstart(d, k) ==
    SubSeq(d, 1, IF batch_size < Len(d) THEN batch_size ELSE Len(d))

\* Mutant of BatchSlice: data[i:i+batch_size-1], one record short
BatchSlice_short(d, k) ==
    SubSeq(d, k + 1, IF k + batch_size - 1 < Len(d) THEN k + batch_size - 1 ELSE Len(d))

\* data[i:i+batch_size] (app.py:160), i counted from 0
BatchSlice(d, k) ==
    SubSeq(d, k + 1, IF k + batch_size < Len(d) THEN k + batch_size ELSE Len(d))

\* predict (app.py:132-182) up to the batch loop: the lazy load, the not-ready
\* check, the empty-body check and, for a request that is not batched, the one
\* process_batch call and the response
predict ==
    /\ pc = "serving"
    /\ LET req == request
       IN
        LET g == IF LAZY_LOAD /\ ~model_loaded
                 THEN load_models
                 ELSE Globals(model, scaler, encoder, model_loaded, TRUE)
        IN  /\ model' = g.model
            /\ scaler' = g.scaler
            /\ encoder' = g.encoder
            /\ model_loaded' = g.model_loaded
            /\ data' = req
            /\ i' = 0
            /\ results' = <<>>
            /\ IF ~g.ret
               THEN /\ response' = ErrorResponse(500, "Failed to load models")
                    /\ batch_calls' = 0
                    /\ pc' = "serving"
               ELSE IF models_missing(g.model, g.scaler, g.encoder)
               THEN /\ response' = ErrorResponse(500, "Models not loaded")
                    /\ batch_calls' = 0
                    /\ pc' = "serving"
               ELSE IF req = <<>>
               THEN /\ response' = ErrorResponse(400, "No data provided")
                    /\ batch_calls' = 0
                    /\ pc' = "serving"
               ELSE IF MEMORY_OPTIMIZED /\ Len(req) > batch_threshold
               THEN /\ response' = NoResponse
                    /\ batch_calls' = 0
                    /\ pc' = "batching"
               ELSE LET b == process_batch(req, g.model, g.scaler, g.encoder)
                    IN  /\ response' = IF b.raised
                                       THEN ErrorResponse(500, "exception")
                                       ELSE SuccessResponse(b.rows)
                        /\ batch_calls' = 1
                        /\ pc' = "serving"
    /\ UNCHANGED <<LAZY_LOAD, MEMORY_OPTIMIZED, cdn, request>>
    /\ UNCHANGED non_svc_vars

\* Mutant of predict_batch: a failing batch ends the loop and what the
\* earlier batches produced is returned as a success
predict_batch_partial ==
    /\ pc = "batching"
    /\ i < Len(data)
    /\ LET batch == BatchSlice(data, i)
           batch_results == process_batch(batch, model, scaler, encoder)
       IN  /\ batch_calls' = batch_calls + 1
           /\ IF batch_results.raised
              THEN /\ response' = SuccessResponse(results)
                   /\ pc' = "serving"
                   /\ UNCHANGED <<i, results>>
              ELSE /\ results' = results \o batch_results.rows
                   /\ i' = i + batch_size
                   /\ UNCHANGED <<response, pc>>
    /\ UNCHANGED <<LAZY_LOAD, MEMORY_OPTIMIZED, cdn, model, scaler, encoder, model_loaded,
                   request, data>>
    /\ UNCHANGED non_svc_vars

\* one iteration of the batch loop (app.py:159-163); an exception raised by
\* process_batch leaves the loop for the handler of app.py:179-182
predict_batch ==
    /\ pc = "batching"
    /\ i < Len(data)
    /\ LET batch == BatchSlice(data, i)
           batch_results == process_batch(batch, model, scaler, encoder)
       IN  /\ batch_calls' = batch_calls + 1
           /\ IF batch_results.raised
              THEN /\ response' = ErrorResponse(500, "exception")
                   /\ pc' = "serving"
                   /\ UNCHANGED <<i, results>>
              ELSE /\ results' = results \o batch_results.rows
                   /\ i' = i + batch_size
                   /\ UNCHANGED <<response, pc>>
    /\ UNCHANGED <<LAZY_LOAD, MEMORY_OPTIMIZED, cdn, model, scaler, encoder, model_loaded,
                   request, data>>
    /\ UNCHANGED non_svc_vars

\* the end of the batch loop: the success response of app.py:165-169
predict_return ==
    /\ pc = "batching"
    /\ i >= Len(data)
    /\ response' = SuccessResponse(results)
    /\ pc' = "serving"
    /\ UNCHANGED <<LAZY_LOAD, MEMORY_OPTIMIZED, cdn, model, scaler, encoder, model_loaded,
                   request, data, i, results, batch_calls>>
    /\ UNCHANGED non_svc_vars

ServiceStartWith(requests) ==
    /\ LAZY_LOAD \in BOOLEAN
    /\ MEMORY_OPTIMIZED \in BOOLEAN
    /\ cdn \in [SCALER_URL : Scalers \cup {None},
                ENCODER_URL : Encoders \cup {None},
                MODEL_URL : Regressors \cup {None}]
    /\ model = None
    /\ scaler = None
    /\ encoder = None
    /\ model_loaded = FALSE
    /\ pc = "startup"
    /\ request \in requests
    /\ data = <<>>
    /\ i = 0
    /\ results = <<>>
    /\ batch_calls = 0
    /\ response = NoResponse

ServiceStart == ServiceStartWith(Requests)

\* the service when only another component is looked at: not started
ServiceIdle ==
    /\ LAZY_LOAD = FALSE
    /\ MEMORY_OPTIMIZED = TRUE
    /\ cdn = [SCALER_URL |-> None, ENCODER_URL |-> None, MODEL_URL |-> None]
    /\ model = None
    /\ scaler = None
    /\ encoder = None
    /\ model_loaded = FALSE
    /\ pc = "idle"
    /\ request = <<>>
    /\ data = <<>>
    /\ i = 0
    /\ results = <<>>
    /\ batch_calls = 0
    /\ response = NoResponse

NextService == module_startup \/ predict \/ predict_batch \/ predict_return

\* ---- the GET endpoints and a repeated load_models call ----
ProbeResponse(endpoint, status, code, message, has_model_loaded, loaded) ==
    [endpoint |-> endpoint, status |-> status, code |-> code, message |-> message,
     has_model_loaded |-> has_model_loaded, model_loaded |-> loaded]

NoProbe == ProbeResponse("none", "none", 0, "", FALSE, FALSE)

\* a health body that calls a lazy service loaded
HealthBody_lazyloaded(lazy, m, sc, enc, loaded) ==
    IF lazy
    THEN ProbeResponse("health", "ok", 200, "API is healthy, lazy loading enabled", TRUE, TRUE)
    ELSE IF m = None \/ sc = None \/ enc = None
    THEN ProbeResponse("health", "error", 500, "Models not loaded", FALSE, FALSE)
    ELSE ProbeResponse("health", "ok", 200, "API is healthy, models are loaded", FALSE, FALSE)

\* the body and status code of /health (app.py:116-130)
HealthBody(lazy, m, sc, enc, loaded) ==
    IF lazy
    THEN ProbeResponse("health", "ok", 200, "API is healthy, lazy loading enabled", TRUE,
                       loaded)
    ELSE IF m = None \/ sc = None \/ enc = None
    THEN ProbeResponse("health", "error", 500, "Models not loaded", FALSE, FALSE)
    ELSE ProbeResponse("health", "ok", 200, "API is healthy, models are loaded", FALSE, FALSE)

\* the body and status code of /model-info (app.py:250-290)
ModelInfoBody(lazy, m, sc, enc, loaded) ==
    IF lazy THEN ProbeResponse("model-info", "success", 200, "", TRUE, loaded)
    ELSE IF m = None \/ sc = None \/ enc = None
    THEN ProbeResponse("model-info", "error", 500, "Models not loaded", FALSE, FALSE)
    ELSE ProbeResponse("model-info", "success", 200, "", FALSE, FALSE)

\* GET /health, also while a /predict request is in its batch loop
health_check ==
    /\ pc \in {"serving", "batching"}
    /\ probe' = HealthBody(LAZY_LOAD, model, scaler, encoder, model_loaded)
    /\ UNCHANGED <<svc_vars, inv_vars, venue_vars>>

\* GET /model-info
model_info ==
    /\ pc \in {"serving", "batching"}
    /\ probe' = ModelInfoBody(LAZY_LOAD, model, scaler, encoder, model_loaded)
    /\ UNCHANGED <<svc_vars, inv_vars, venue_vars>>

\* load_models() called again in the running service
call_load_models ==
    /\ pc = "serving"
    /\ LET g == load_models
       IN  /\ model' = g.model
           /\ scaler' = g.scaler
           /\ encoder' = g.encoder
           /\ model_loaded' = g.model_loaded
           /\ probe' = ProbeResponse("load_models", IF g.ret THEN "ok" ELSE "error", 0, "",
                                     FALSE, FALSE)
    /\ UNCHANGED <<LAZY_LOAD, MEMORY_OPTIMIZED, cdn, pc, request, data, i, results,
                   batch_calls, response>>
    /\ UNCHANGED <<inv_vars, venue_vars>>

ArtifactStores ==
    [SCALER_URL : Scalers \cup {None},
     ENCODER_URL : Encoders \cup {None},
     MODEL_URL : Regressors \cup {None}]

\* the files behind the artifact URLs are replaced or removed
cdn_replace ==
    /\ pc = "serving"
    /\ cdn' \in ArtifactStores \ {cdn}
    /\ UNCHANGED <<LAZY_LOAD, MEMORY_OPTIMIZED, model, scaler, encoder, model_loaded, pc,
                   request, data, i, results, batch_calls, response>>
    /\ UNCHANGED non_svc_vars

\* the requests of the runs that look at the GET endpoints
ProbeRequests ==
    {MakeRequest(n, "head1", pair) :
        n \in (0..MaxSmall) \cup {batch_size + 1}, pair \in {<<KTee, KTee>>, <<KTee, KNoPrice>>}}

ProbeIdle == probe = NoProbe

NextProbes ==
    \/ module_startup
    \/ predict
    \/ predict_batch
    \/ predict_return
    \/ health_check
    \/ model_info
    \/ call_load_models
    \/ cdn_replace

(***************************************************************************)
(* Properties of the prediction service                                    *)
(***************************************************************************)
Abs(x) == IF x < 0 THEN 0 - x ELSE x

\* the requests that predict splits into batches
IsBatched(d) == MEMORY_OPTIMIZED /\ Len(d) > batch_threshold

\* a /predict call has run to its response and process_batch was called for it
Answered == pc = "serving" /\ response.status # "none" /\ batch_calls > 0

RespQty(rows) == [j \in 1..Len(rows) |-> rows[j].predicted_sales_quantity]

RespPct(rows) == [j \in 1..Len(rows) |-> rows[j].pct_item_sales_per_category.v]

GroupSize(rows, g) == Cardinality({j \in 1..Len(rows) : GroupKey(rows[j]) = g})

\* the shares of group g are finite numbers that sum to 100.00 up to the
\* rounding of each share to two decimals (half a hundredth per record)
SharesSumTo100(rows, g) ==
    /\ \A j \in 1..Len(rows) :
          GroupKey(rows[j]) = g => rows[j].pct_item_sales_per_category.kind = "num"
    /\ 2 * Abs(SumQty(rows, RespPct(rows), g, 1, Len(rows)) - 10000) <= GroupSize(rows, g)

\* C1: in every successful response, batched or not, the percent-of-category
\* values of each (artistName, showDate, productType) group with a positive
\* total predicted quantity sum to 100 within rounding tolerance.
C1_GroupSharesSumTo100 ==
    response.status = "success" =>
        \A g \in {GroupKey(response.data[j]) : j \in 1..Len(response.data)} :
            SumQty(response.data, RespQty(response.data), g, 1, Len(response.data)) > 0
                => SharesSumTo100(response.data, g)

\* C2: a request of more than 100 records answered through the batch loop
\* returns the records of a single process_batch run over the whole input, in
\* the same order and with the same predicted quantity per record (and fails
\* exactly when the single run fails).
C2_BatchedEqualsSingleRun ==
    (Answered /\ IsBatched(data)) =>
        LET single == process_batch(data, model, scaler, encoder)
        IN  IF response.status = "success"
            THEN /\ ~single.raised
                 /\ Len(response.data) = Len(single.rows)
                 /\ \A j \in 1..Len(single.rows) :
                       /\ response.data[j].Item_Name = single.rows[j].Item_Name
                       /\ response.data[j].predicted_sales_quantity
                            = single.rows[j].predicted_sales_quantity
            ELSE single.raised

C2_Witness ==
    /\ Answered
    /\ IsBatched(data)
    /\ Len(data) = MaxBatches * batch_size + MidTail
    /\ response.status = "success"
    /\ \E j, k \in 1..Len(response.data) :
          response.data[j].predicted_sales_quantity
            # response.data[k].predicted_sales_quantity

\* the starts i of the batches predict cuts d into
BatchStarts(d) == {k \in 0..(Len(d) - 1) : k % batch_size = 0}

SomeBatchRaises(d) ==
    IF IsBatched(d)
    THEN \E k \in BatchStarts(d) :
            process_batch(BatchSlice(d, k), model, scaler, encoder).raised
    ELSE process_batch(d, model, scaler, encoder).raised

\* C3: a request fully succeeds or fully fails: when process_batch raises for
\* any batch the response is an error, and an error response carries no
\* prediction records, whatever the earlier batches produced.
C3_AllOrNothing ==
    /\ (Answered /\ SomeBatchRaises(data)) => response.status = "error"
    /\ response.status = "error" => (response.data = <<>> /\ response.record_count = 0)
    /\ (Answered /\ response.status = "success") => Len(response.data) = Len(data)

C3_Witness ==
    /\ Answered
    /\ response.status = "error"
    /\ batch_calls > 1
    /\ Len(results) >= batch_size

\* C4: while any of model, scaler, encoder is not loaded, /predict answers
\* with the not-ready error and never calls process_batch, in both load modes.
C4_NotReadyNeverPredicts ==
    (model = None \/ scaler = None \/ encoder = None) =>
        /\ pc # "batching"
        /\ batch_calls = 0
        /\ response.status # "none" => response = ErrorResponse(500, "Models not loaded")

C4_Witness ==
    /\ model = None
    /\ Len(data) > 0
    /\ response = ErrorResponse(500, "Models not loaded")

AllDownloadsSucceed ==
    cdn["SCALER_URL"] # None /\ cdn["ENCODER_URL"] # None /\ cdn["MODEL_URL"] # None

\* C5: with lazy loading the artifacts are loaded by the first /predict: after
\* a request has been answered (all downloads succeeding) model_loaded is true,
\* model, scaler and encoder are present, and the request was not rejected
\* with 'Models not loaded'.
C5_LazyLoadsOnFirstPredict ==
    (LAZY_LOAD /\ AllDownloadsSucceed /\ pc = "serving" /\ response.status # "none") =>
        /\ model_loaded
        /\ model # None /\ scaler # None /\ encoder # None
        /\ response.message # "Models not loaded"

\* every fitted vocabulary of the encoder holds the sentinel class
EncoderHasSentinel(enc) ==
    \A f \in 1..Len(input_categorical_features) :
        InClasses(enc[input_categorical_features[f]], unknown_category)

\* the position of the sentinel in the vocabulary of the feature, as a code
SentinelCode(enc, feature) ==
    Num((CHOOSE k \in 1..Len(enc[feature]) : enc[feature][k] = unknown_category) - 1)

\* the normalised value of the feature is not in its vocabulary
OutOfVocabulary(enc, r, feature) == ~InClasses(enc[feature], NormalizeCategory(r[feature]))

HasOutOfVocabulary(enc, r) ==
    \E f \in 1..Len(input_categorical_features) :
        OutOfVocabulary(enc, r, input_categorical_features[f])

\* a numerical field of the record is missing
HasMissing(r) == r.attendance = NaN \/ r.product_price = NaN

\* the feature row of a record with the sentinel's code in the place of
\* every out-of-vocabulary value
RowWithSentinel(r, sc, enc) ==
    [f \in DOMAIN FeatureRow(r, sc, enc) |->
        IF f \in {"artistName", "venue_city", "productType"} /\ OutOfVocabulary(enc, r, f)
        THEN SentinelCode(enc, f)
        ELSE FeatureRow(r, sc, enc)[f]]

\* the request has run through process_batch with dates that parse
AnsweredWithDates == Answered /\ \A j \in 1..Len(data) : IsDate(data[j].showDate)

\* C18: with an encoder whose vocabularies hold the sentinel class, a request
\* whose records have no missing number is answered with all its records, and
\* a record with an out-of-vocabulary value appears at its place with the
\* quantity predicted from the sentinel's code
C18_UnknownSubstitutedNotDropped ==
    (AnsweredWithDates /\ EncoderHasSentinel(encoder)
     /\ \A j \in 1..Len(data) : ~HasMissing(data[j]))
    => /\ response.status = "success"
       /\ Len(response.data) = Len(data)
       /\ \A j \in 1..Len(data) :
             HasOutOfVocabulary(encoder, data[j])
             => /\ response.data[j].Item_Name = data[j].Item_Name
                /\ response.data[j].predicted_sales_quantity
                   = RoundHalfEven(ModelPredict2(model, RowWithSentinel(data[j], scaler,
                                                                       encoder)), 2)

\* a record of an unknown city is answered by a regressor that weighs the
\* city code
C18_Witness ==
    /\ AnsweredWithDates
    /\ response.status = "success"
    /\ model.w_city # 0
    /\ \E j \in 1..Len(data) :
          /\ data[j].venue_city = T_Zz
          /\ response.data[j].Item_Name = data[j].Item_Name

\* C19: when some records of a request have a missing number and others do
\* not (and nothing else fails), the request succeeds and every record
\* without a missing number is returned with the quantity predicted from its
\* own feature row
C19_MissingRowDroppedOthersPredicted ==
    (AnsweredWithDates
     /\ (\A j \in 1..Len(data) : HasOutOfVocabulary(encoder, data[j])
                                 => EncoderHasSentinel(encoder))
     /\ (\E j \in 1..Len(data) : HasMissing(data[j]))
     /\ (\E j \in 1..Len(data) : ~HasMissing(data[j])))
    => /\ response.status = "success"
       /\ \A j \in 1..Len(data) :
             ~HasMissing(data[j])
             => \E k \in 1..Len(response.data) :
                   /\ response.data[k].Item_Name = data[j].Item_Name
                   /\ response.data[k].predicted_sales_quantity
                      = RoundHalfEven(ModelPredict2(model, FeatureRow(data[j], scaler,
                                                                      encoder)), 2)

\* C20: every record of a successful response carries a quantity that is not
\* negative and a share that is a number from 0 to 100
C20_QuantityAndShareInRange ==
    response.status = "success"
    => \A j \in 1..Len(response.data) :
          /\ response.data[j].predicted_sales_quantity >= 0
          /\ response.data[j].pct_item_sales_per_category.kind = "num"
          /\ response.data[j].pct_item_sales_per_category.v >= 0
          /\ response.data[j].pct_item_sales_per_category.v <= 10000

\* the total predicted quantity of the group of record j of the rows
GroupTotalOf(rows, j) == SumQty(rows, RespQty(rows), GroupKey(rows[j]), 1, Len(rows))

\* C21: in a successful response, every member of a group whose predicted
\* quantities sum to 0 carries a share that is a defined number, not nan or
\* an infinity
C21_ZeroGroupShareDefined ==
    response.status = "success"
    => \A j \in 1..Len(response.data) :
          GroupTotalOf(response.data, j) = 0
          => response.data[j].pct_item_sales_per_category.kind = "num"

\* the number of batches of batch_size that cover n records
BatchCount(n) == (n + batch_size - 1) \div batch_size

Smaller(a, b) == IF a < b THEN a ELSE b

\* C23 as stated: a request of more than 100 records is answered through one
\* process_batch run per batch of 100, a request of 100 or fewer through one
\* run
C23_SplitsAbove100 ==
    (Answered /\ response.status = "success")
    => batch_calls = IF Len(data) > batch_threshold THEN BatchCount(Len(data)) ELSE 1

\* C23 amended: with MEMORY_OPTIMIZED set, a request of more than 100 records
\* is cut into consecutive batches of exactly 100 (the last one smaller, never
\* empty) whose results are appended in order; every other request, and every
\* request when MEMORY_OPTIMIZED is not set, is one process_batch run
C23_SplitsAbove100WhenOptimized ==
    /\ pc = "batching"
       => /\ IsBatched(data)
          /\ i = batch_size * batch_calls
          /\ Len(results) = Smaller(i, Len(data))
          /\ \A j \in 1..Len(results) : results[j].Item_Name = data[j].Item_Name
    /\ (pc = "batching" /\ i < Len(data))
       => LET batch == BatchSlice(data, i)
          IN  /\ Len(batch) = Smaller(batch_size, Len(data) - i)
              /\ Len(batch) > 0
              /\ \A k \in 1..Len(batch) : batch[k] = data[i + k]
    /\ (Answered /\ response.status = "success")
       => batch_calls = IF IsBatched(data) THEN BatchCount(Len(data)) ELSE 1
    /\ (Answered /\ ~IsBatched(data)) => batch_calls = 1

\* a request of MaxBatches full batches and a short last one has been answered
C23_Witness ==
    /\ Answered
    /\ response.status = "success"
    /\ IsBatched(data)
    /\ Len(data) = MaxBatches * batch_size + MaxTail
    /\ batch_calls = MaxBatches + 1
    /\ Len(response.data) = Len(data)

\* the runs of process_batch that answered the request, as the ranges lo..hi
\* of the records each of them was given
Runs ==
    IF IsBatched(data)
    THEN {[lo |-> k + 1, hi |-> Smaller(k + batch_size, Len(data))] : k \in BatchStarts(data)}
    ELSE {[lo |-> 1, hi |-> Len(data)]}

\* C24: in a successful response, the share of every record whose group has a
\* total other than 0 is the hundredth nearest to its predicted quantity
\* divided by the total of its group (as grouped by one process_batch run),
\* times 100; quantities 10, 20, 30 give 16.67, 33.33, 50.0
C24_ShareIsRoundedQuotient ==
    /\ (Answered /\ response.status = "success")
       => \A run \in Runs :
             \A g \in {GroupKey(response.data[j]) : j \in run.lo..run.hi} :
                LET total == SumQty(response.data, RespQty(response.data), g,
                                    run.lo, run.hi)
                IN  total # 0
                    => \A j \in run.lo..run.hi :
                          LET pct == response.data[j].pct_item_sales_per_category
                          IN  GroupKey(response.data[j]) = g
                              => /\ pct.kind = "num"
                                 /\ 2 * Abs(pct.v * total
                                       - response.data[j].predicted_sales_quantity * 10000)
                                      <= Abs(total)
    /\ <<Share(10, 60), Share(20, 60), Share(30, 60)>> = <<Num(1667), Num(3333), Num(5000)>>

\* two records of one group with the shares 33.33 and 66.67
C24_Witness ==
    /\ Answered
    /\ response.status = "success"
    /\ \E j, k \in 1..Len(response.data) :
          /\ GroupKey(response.data[j]) = GroupKey(response.data[k])
          /\ response.data[j].pct_item_sales_per_category = Num(3333)
          /\ response.data[k].pct_item_sales_per_category = Num(6667)

\* C29: model_loaded implies that model, scaler and encoder are all present;
\* an eager load in which a download fails leaves model_loaded false and the
\* service exits instead of serving
C29_LoadedMeansAllPresent ==
    /\ model_loaded => (model # None /\ scaler # None /\ encoder # None)
    /\ (~LAZY_LOAD /\ pc # "startup" /\ ~AllDownloadsSucceed)
       => (~model_loaded /\ pc = "exited")
    /\ (~LAZY_LOAD /\ pc \in {"serving", "batching"}) => model_loaded

\* an eager load that got the scaler but not the model
C29_Witness ==
    /\ ~LAZY_LOAD
    /\ pc = "exited"
    /\ scaler # None
    /\ model = None
    /\ ~model_loaded

\* a record process_batch cannot predict: a missing number, or a date that
\* does not parse
Unpredictable(r) == HasMissing(r) \/ ~IsDate(r.showDate)

\* C30: a successful response carries one prediction record per request
\* record, in request order, and record_count is the number of request
\* records; a request with a record that cannot be predicted is not answered
\* with a success
C30_OnePredictionPerRecord ==
    /\ (pc = "serving" /\ response.status = "success")
       => /\ Len(response.data) = Len(data)
          /\ response.record_count = Len(data)
          /\ \A j \in 1..Len(data) : response.data[j].Item_Name = data[j].Item_Name
    /\ (Answered /\ \E j \in 1..Len(data) : Unpredictable(data[j]))
       => response.status # "success"

\* the longest request answered in full, its last record at the last place
C30_Witness ==
    /\ pc = "serving"
    /\ response.status = "success"
    /\ response.record_count = MaxBatches * batch_size + MidTail
    /\ response.data[response.record_count].Item_Name = Len(data)

\* what a /health answer says about the artifacts: its model_loaded field
\* when it has one, its status otherwise
HealthReportsLoaded(p) == IF p.has_model_loaded THEN p.model_loaded ELSE p.status = "ok"

\* C22: every /health call, in both load modes, reports the artifacts as
\* loaded exactly when model, scaler and encoder are all present, and leaves
\* the artifacts, model_loaded and everything /predict keeps as they were
C22_HealthReportsLoadState ==
    [][health_check
       => /\ probe'.endpoint = "health"
          /\ HealthReportsLoaded(probe')
               <=> (model # None /\ scaler # None /\ encoder # None)
          /\ UNCHANGED <<model, scaler, encoder, model_loaded, pc, data, i, results,
                         batch_calls, response>>]_vars

\* /health answered by an eager service that has predicted
C22_Witness ==
    /\ probe.endpoint = "health"
    /\ ~LAZY_LOAD
    /\ probe.code = 200
    /\ model_loaded
    /\ response.status = "success"

\* C25: once model_loaded is true, no step of the service (load_models,
\* /predict, /health, /model-info, a change of the files behind the URLs)
\* changes model, scaler, encoder or model_loaded
C25_LoadedArtifactsNeverChange ==
    [][model_loaded => UNCHANGED <<model, scaler, encoder, model_loaded>>]_vars

\* load_models was called in a loaded service whose model URL serves another
\* file than the model in use, or none
C25_Witness ==
    /\ model_loaded
    /\ probe.endpoint = "load_models"
    /\ cdn["MODEL_URL"] # model
    /\ response.status = "success"

(***************************************************************************)
(* process_inventory_file: src/prediction/prediction-streamlit.py:48-170   *)
(* and src/stream_all_products_for_upcoming_show.py:64-160                 *)
(***************************************************************************)
\* a text cell, and the NaN pandas gives an empty cell
Txt(s) == [kind |-> "str", v |-> s]
NaText == [kind |-> "nan", v |-> <<>>]
\* pd.isna / pd.notna
isna(c) == c.kind = "nan"
notna(c) == c.kind # "nan"

Digits == <<"0","1","2","3","4","5","6","7","8","9">>
IsDigit(c) == \E k \in 1..10 : Digits[k] = c
DigitVal(c) == (CHOOSE k \in 1..10 : Digits[k] = c) - 1
AllDigits(s) == \A k \in 1..Len(s) : IsDigit(s[k])

\* the value of a digit string
RECURSIVE ToInt(_)
ToInt(s) == IF s = <<>> THEN 0 ELSE 10 * ToInt(SubSeq(s, 1, Len(s) - 1)) + DigitVal(s[Len(s)])

\* calendar.monthrange
IsLeap(y) == (y % 4 = 0 /\ y % 100 # 0) \/ y % 400 = 0
DaysInMonth(mo, y) ==
    IF mo = 2 THEN (IF IsLeap(y) THEN 29 ELSE 28)
    ELSE IF mo \in {4, 6, 9, 11} THEN 30 ELSE 31

\* datetime.strptime(text, '%m/%d/%y'): %m and %d take one or two digits,
\* %y exactly two (00-68 -> 20xx, 69-99 -> 19xx); the whole text must match
\* and the day must exist.  The result is <<month, day, year>>; <<>> stands
\* for the ValueError.
strptime(text) ==
    LET f == Split(text, <<"/">>)
    IN  IF Len(f) # 3 THEN <<>>
        ELSE IF ~(Len(f[1]) \in 1..2 /\ AllDigits(f[1])) THEN <<>>
        ELSE IF ~(Len(f[2]) \in 1..2 /\ AllDigits(f[2])) THEN <<>>
        ELSE IF ~(Len(f[3]) = 2 /\ AllDigits(f[3])) THEN <<>>
        ELSE
        LET mo == ToInt(f[1])
            d == ToInt(f[2])
            yy == ToInt(f[3])
            y == IF yy <= 68 THEN 2000 + yy ELSE 1900 + yy
        IN  IF mo \in 1..12 /\ d >= 1 /\ d <= DaysInMonth(mo, y) THEN <<mo, d, y>> ELSE <<>>

\* float(text) for a plain decimal numeral with at most two decimals, in
\* hundredths; NaN stands for the ValueError
ParseFloat(text) ==
    LET f == Split(text, <<".">>)
    IN  IF Len(f) = 1 /\ f[1] # <<>> /\ AllDigits(f[1]) THEN Num(100 * ToInt(f[1]))
        ELSE IF Len(f) = 2 /\ f[1] # <<>> /\ AllDigits(f[1]) /\ AllDigits(f[2])
                /\ Len(f[2]) <= 2
        THEN Num(100 * ToInt(f[1])
                 + (IF Len(f[2]) = 1 THEN 10 * ToInt(f[2]) ELSE ToInt(f[2])))
        ELSE NaN

\* the header price hint (prediction-streamlit.py:90-97); NaN stands for None
HeaderPrice(col) ==
    IF Contains(col, <<"(", "$">>)
    THEN LET price_part == Split(Split(col, <<"(", "$">>)[2], <<"/">>)[1]
         IN  ParseFloat(SelectSeq(price_part, LAMBDA c : c # "$"))
    ELSE NaN

\* UI messages: [level, about]
Msg(level, about) == [level |-> level, about |-> about]

\* show_columns (prediction-streamlit.py:76, stream...:78)
ShowColumns(columns) == SelectSeq(columns, LAMBDA col : Contains(col, <<"-">>))

\* a schedule extractor that keeps one show per (city, date)
RECURSIVE ExtractShows_dedup(_, _)
ExtractShows_dedup(show_columns, n) ==
    IF n = 0 THEN [shows |-> <<>>, messages |-> <<>>]
    ELSE
    LET sofar == ExtractShows_dedup(show_columns, n - 1)
        col == show_columns[n]
        parts == Split(col, <<" ", "-", " ">>)
    IN  IF Len(parts) < 2
        THEN [sofar EXCEPT !.messages = Append(@, Msg("warning", col))]
        ELSE
        LET city == Strip(parts[1])
            date_part == Split(parts[2], <<" ">>)[1]
            price == HeaderPrice(col)
            date == strptime(date_part)
        IN  IF date = <<>>
            THEN [sofar EXCEPT !.messages = Append(@, Msg("error", date_part))]
            ELSE IF \E k \in 1..Len(sofar.shows) :
                        sofar.shows[k].city = city /\ sofar.shows[k].date = date
            THEN sofar
            ELSE [sofar EXCEPT !.shows = Append(@, [city |-> city, date |-> date,
                                                    price |-> price])]

\* a schedule extractor that gives up the shows found so far when a date fails
RECURSIVE ExtractShows_strict(_, _)
ExtractShows_strict(show_columns, n) ==
    IF n = 0 THEN [shows |-> <<>>, messages |-> <<>>]
    ELSE
    LET sofar == ExtractShows_strict(show_columns, n - 1)
        col == show_columns[n]
        parts == Split(col, <<" ", "-", " ">>)
    IN  IF Len(parts) < 2
        THEN [sofar EXCEPT !.messages = Append(@, Msg("warning", col))]
        ELSE
        LET city == Strip(parts[1])
            date_part == Split(parts[2], <<" ">>)[1]
            price == HeaderPrice(col)
            date == strptime(date_part)
        IN  IF date # <<>>
            THEN [sofar EXCEPT !.shows = Append(@, [city |-> city, date |-> date,
                                                    price |-> price])]
            ELSE [shows |-> <<>>,
                  messages |-> Append(sofar.messages, Msg("error", date_part))]

\* a schedule extractor that puts each new show in front of the others
RECURSIVE ExtractShows_reversed(_, _)
ExtractShows_reversed(show_columns, n) ==
    IF n = 0 THEN [shows |-> <<>>, messages |-> <<>>]
    ELSE
    LET sofar == ExtractShows_reversed(show_columns, n - 1)
        col == show_columns[n]
        parts == Split(col, <<" ", "-", " ">>)
    IN  IF Len(parts) < 2
        THEN [sofar EXCEPT !.messages = Append(@, Msg("warning", col))]
        ELSE
        LET city == Strip(parts[1])
            date_part == Split(parts[2], <<" ">>)[1]
            price == HeaderPrice(col)
            date == strptime(date_part)
        IN  IF date # <<>>
            THEN [sofar EXCEPT !.shows = <<[city |-> city, date |-> date, price |-> price]>> \o @]
            ELSE [sofar EXCEPT !.messages = Append(@, Msg("error", date_part))]

\* one pass of the column loop of prediction-streamlit.py:79-114: the shows
\* and the messages after the columns 1..n
RECURSIVE ExtractShows(_, _)
ExtractShows(show_columns, n) ==
    IF n = 0 THEN [shows |-> <<>>, messages |-> <<>>]
    ELSE
    LET sofar == ExtractShows(show_columns, n - 1)
        col == show_columns[n]
        parts == Split(col, <<" ", "-", " ">>)
    IN  IF Len(parts) < 2
        THEN [sofar EXCEPT !.messages = Append(@, Msg("warning", col))]
        ELSE
        LET city == Strip(parts[1])
            date_part == Split(parts[2], <<" ">>)[1]
            price == HeaderPrice(col)
            date == strptime(date_part)
        IN  IF date # <<>>
            THEN [sofar EXCEPT !.shows = Append(@, [city |-> city, date |-> date,
                                                    price |-> price])]
            ELSE [sofar EXCEPT !.messages = Append(@, Msg("error", date_part))]

\* the column loop of stream_all_products_for_upcoming_show.py:82-105: no
\* price hint, one try block around the whole column
RECURSIVE ExtractShows_stream(_, _)
ExtractShows_stream(show_columns, n) ==
    IF n = 0 THEN [shows |-> <<>>, messages |-> <<>>]
    ELSE
    LET sofar == ExtractShows_stream(show_columns, n - 1)
        col == show_columns[n]
        parts == Split(col, <<" ", "-", " ">>)
    IN  IF Len(parts) < 2
        THEN [sofar EXCEPT !.messages = Append(@, Msg("warning", col))]
        ELSE
        LET city == Strip(parts[1])
            date_part == Split(parts[2], <<" ">>)[1]
            date == strptime(date_part)
        IN  IF date # <<>>
            THEN [sofar EXCEPT !.shows = Append(@, [city |-> city, date |-> date,
                                                    price |-> NaN])]
            ELSE [sofar EXCEPT !.messages = Append(@, Msg("error", col))]

\* ---- sample headers ----
H_Boston == <<"B","o"," ","-"," ","0","9","/","1","2","/","2","5"," ","(","$","7",".","0","0","/","h","e","a","d",")">>
H_NewYork == <<"N","Y"," "," ","-"," ","1","/","2","/","6","9">>
H_BostonLate == <<"B","o"," ","-"," ","0","9","/","1","2","/","2","5"," ","(","$","8",".","5","0","/","h","e","a","d",")">>
H_BadDate == <<"L","A"," ","-"," ","0","2","/","3","0","/","2","5"," ","(","$","7",".","0","0","/","h","e","a","d",")">>
H_TShirt == <<"T","-","S","h","i","r","t">>

\* the fixed columns of an inventory file
Col_ItemName == <<"I","t","e","m"," ","N","a","m","e">>
Col_Size == <<"S","i","z","e">>
Col_SKU == <<"S","K","U">>
Col_ProductType == <<"P","r","o","d","u","c","t"," ","T","y","p","e">>

\* ---- sample texts ----
MH_Suffix == <<" ","(","M","H",")">>
B_AS == <<"A","S">>
B_ZZ == <<"Z","Z">>
G_Rock == <<"R","o","c","k">>
G_Pop == <<"P","o","p">>
ONE_SIZE == <<"O","N","E"," ","S","I","Z","E">>
S_M == <<"M">>
S_L == <<"L">>
I_TS == <<"T","S">>
I_Hat == <<"H","a","t">>
I_Cap == <<"C","a","p">>
SKU_TSM == <<"T","S","-","M">>
SKU_HAT == <<"H","A","T">>
SKU_XX == <<"X","X">>
P_Tee == <<"T","e","e">>
P_Hat == <<"H","a","t">>

\* band_genre_match (prediction-streamlit.py:50)
GenreMatch(gdf, band) == SelectSeq(gdf.rows, LAMBDA r : r.MH_band = band)

\* band_name_for_price (prediction-streamlit.py:59)
BandNameForPrice(gdf, band) ==
    IF gdf.has_band_name THEN GenreMatch(gdf, band)[1].Band_Name ELSE band

\* band_prices (prediction-streamlit.py:65-66)
BandPrices(pdf, name_for_price) ==
    SelectSeq(pdf, LAMBDA r : r.Band_Name = name_for_price
                              \/ r.Band_Name = name_for_price \o MH_Suffix)

\* band_prices (stream_all_products_for_upcoming_show.py:115-116): the alias is
\* built from band_name, not from band_name_for_price
BandPrices_stream(pdf, band, name_for_price) ==
    SelectSeq(pdf, LAMBDA r : r.Band_Name = name_for_price
                              \/ r.Band_Name = band \o MH_Suffix)

\* band_prices['SKU'] == sku: a NaN never compares equal
SkuEquals(a, b) == notna(a) /\ notna(b) /\ a.v = b.v

\* the price of one inventory line (prediction-streamlit.py:130-147); the
\* empty text '' when nothing was found
EmptyText == Txt(<<>>)
ItemPrice(line, has_sku, band_prices) ==
    IF band_prices # <<>> /\ has_sku /\ notna(line.SKU)
    THEN LET sku_match == SelectSeq(band_prices, LAMBDA r : SkuEquals(r.SKU, line.SKU))
         IN  IF sku_match # <<>> THEN sku_match[1].Price ELSE EmptyText
    ELSE EmptyText

\* row['Size'] if pd.notna(row['Size']) else 'ONE SIZE'
SizeOf(line) == IF notna(line.Size) THEN line.Size.v ELSE ONE_SIZE

\* the price of one inventory line in
\* stream_all_products_for_upcoming_show.py:125-140: the SKU match, then the
\* first ledger row whose SKU text contains the item name and the size
ItemPrice_stream(line, has_sku, band_prices) ==
    IF band_prices = <<>> THEN EmptyText
    ELSE
    LET sku_match == SelectSeq(band_prices, LAMBDA r : SkuEquals(r.SKU, line.SKU))
        by_sku == IF has_sku /\ notna(line.SKU) /\ sku_match # <<>>
                  THEN sku_match[1].Price ELSE EmptyText
        by_name == SelectSeq(band_prices,
                             LAMBDA r : /\ notna(r.SKU)
                                        /\ Contains(r.SKU.v, line.Item_Name.v)
                                        /\ Contains(r.SKU.v, SizeOf(line)))
    IN  IF by_sku = EmptyText /\ by_name # <<>> THEN by_name[1].Price ELSE by_sku

\* a row expander that falls back to the show's header price
LineRows_hinted(line, shows, band, genre, item_price) ==
    [k \in 1..Len(shows) |->
        [artistName |-> band,
         Genre |-> genre,
         showDate |-> shows[k].date,
         venue_name |-> <<>>,
         venue_city |-> Txt(shows[k].city),
         venue_state |-> <<>>,
         attendance |-> Num(0),
         product_size |-> SizeOf(line),
         productType |-> line.Product_Type,
         product_price |-> IF item_price # EmptyText THEN item_price ELSE shows[k].price,
         Item_Name |-> line.Item_Name]]

\* the rows one inventory line expands to (prediction-streamlit.py:150-166)
LineRows(line, shows, band, genre, item_price) ==
    [k \in 1..Len(shows) |->
        [artistName |-> band,
         Genre |-> genre,
         showDate |-> shows[k].date,
         venue_name |-> <<>>,
         venue_city |-> Txt(shows[k].city),
         venue_state |-> <<>>,
         attendance |-> Num(0),
         product_size |-> SizeOf(line),
         productType |-> line.Product_Type,
         product_price |-> IF item_price # EmptyText THEN item_price ELSE NaN,
         Item_Name |-> line.Item_Name]]

\* the rows one inventory line expands to
\* (stream_all_products_for_upcoming_show.py:143-156): '' stays ''
LineRows_stream(line, shows, band, genre, item_price) ==
    [k \in 1..Len(shows) |->
        [artistName |-> band,
         Genre |-> genre,
         showDate |-> shows[k].date,
         venue_name |-> <<>>,
         venue_city |-> Txt(shows[k].city),
         venue_state |-> <<>>,
         attendance |-> Num(0),
         product_size |-> SizeOf(line),
         productType |-> line.Product_Type,
         product_price |-> item_price,
         Item_Name |-> line.Item_Name]]

\* the row loop of prediction-streamlit.py:123-166 over the lines 1..n
RECURSIVE OutputRows(_, _, _, _, _, _, _)
OutputRows(lines, n, has_sku, shows, band, genre, band_prices) ==
    IF n = 0 THEN <<>>
    ELSE
    LET before == OutputRows(lines, n - 1, has_sku, shows, band, genre, band_prices)
        line == lines[n]
    IN  IF isna(line.Item_Name) THEN before
        ELSE before \o LineRows(line, shows, band, genre,
                                ItemPrice(line, has_sku, band_prices))

\* the row loop of stream_all_products_for_upcoming_show.py:118-156
RECURSIVE OutputRows_stream(_, _, _, _, _, _, _)
OutputRows_stream(lines, n, has_sku, shows, band, genre, band_prices) ==
    IF n = 0 THEN <<>>
    ELSE
    LET before == OutputRows_stream(lines, n - 1, has_sku, shows, band, genre, band_prices)
        line == lines[n]
    IN  IF isna(line.Item_Name) THEN before
        ELSE before \o LineRows_stream(line, shows, band, genre,
                                       ItemPrice_stream(line, has_sku, band_prices))

\* a returned table, and the None of an aborted file
Returned(rows, shows, messages) ==
    [returned |-> TRUE, rows |-> rows, shows |-> shows, messages |-> messages]
Aborted(messages) ==
    [returned |-> FALSE, rows |-> <<>>, shows |-> <<>>, messages |-> messages]
NotRun == [returned |-> FALSE, rows |-> <<>>, shows |-> <<>>, messages |-> <<>>]

HasSkuColumn(idf) == \E k \in 1..Len(idf.columns) : idf.columns[k] = Col_SKU

\* process_inventory_file of src/prediction/prediction-streamlit.py:48-170
process_inventory_file(idf, band, gdf, pdf) ==
    IF GenreMatch(gdf, band) = <<>>
    THEN Aborted(<<Msg("error", band)>>)
    ELSE
    LET genre == GenreMatch(gdf, band)[1].Genre
        band_name_for_price == BandNameForPrice(gdf, band)
        band_prices == BandPrices(pdf, band_name_for_price)
        price_msg == IF band_prices = <<>>
                     THEN Msg("warning", band_name_for_price)
                     ELSE Msg("success", band_name_for_price)
        show_columns == ShowColumns(idf.columns)
        ex == ExtractShows(show_columns, Len(show_columns))
    IN  IF ex.shows = <<>>
        THEN Aborted(<<price_msg>> \o ex.messages \o <<Msg("error", <<>>)>>)
        ELSE Returned(OutputRows(idf.rows, Len(idf.rows), HasSkuColumn(idf), ex.shows,
                                 band, genre, band_prices),
                      ex.shows, <<price_msg>> \o ex.messages)

\* process_inventory_file of src/stream_all_products_for_upcoming_show.py:64-160
process_inventory_file_stream(idf, band, gdf, pdf) ==
    IF GenreMatch(gdf, band) = <<>>
    THEN Aborted(<<Msg("error", band)>>)
    ELSE
    LET genre == GenreMatch(gdf, band)[1].Genre
        band_name_for_price == BandNameForPrice(gdf, band)
        show_columns == ShowColumns(idf.columns)
        ex == ExtractShows_stream(show_columns, Len(show_columns))
        band_prices == BandPrices_stream(pdf, band, band_name_for_price)
    IN  IF ex.shows = <<>>
        THEN Aborted(ex.messages \o <<Msg("error", <<>>)>>)
        ELSE Returned(OutputRows_stream(idf.rows, Len(idf.rows), HasSkuColumn(idf),
                                        ex.shows, band_name_for_price, genre, band_prices),
                      ex.shows, ex.messages)

\* ---- the command-line copy: src/all_products_for_upcoming_show.py ----
\* str(e) of the exceptions the script lets through to its `except Exception`
IndexError_iloc == <<"s","i","n","g","l","e"," ","p","o","s","i","t","i","o","n","a","l"," ","i","n","d","e","x","e","r"," ","i","s"," ","o","u","t","-","o","f","-","b","o","u","n","d","s">>
KeyError_BandName == <<"'","B","a","n","d"," ","N","a","m","e","'">>
IndexError_list == <<"l","i","s","t"," ","i","n","d","e","x"," ","o","u","t"," ","o","f"," ","r","a","n","g","e">>
ValueError_day == <<"d","a","y"," ","i","s"," ","o","u","t"," ","o","f"," ","r","a","n","g","e"," ","f","o","r"," ","m","o","n","t","h">>
ValueError_format(text) == <<"t","i","m","e"," ","d","a","t","a"," ","'">> \o text \o <<"'"," ","d","o","e","s"," ","n","o","t"," ","m","a","t","c","h"," ","f","o","r","m","a","t"," ","'","%","m","/","%","d","/","%","y","'">>

\* the text has the shape of '%m/%d/%y'
MatchesDateFormat(text) ==
    LET f == Split(text, <<"/">>)
    IN  /\ Len(f) = 3
        /\ Len(f[1]) \in 1..2 /\ AllDigits(f[1]) /\ ToInt(f[1]) \in 1..12
        /\ Len(f[2]) \in 1..2 /\ AllDigits(f[2]) /\ ToInt(f[2]) \in 1..31
        /\ Len(f[3]) = 2 /\ AllDigits(f[3])

\* the column loop of all_products_for_upcoming_show.py:22-36 over the columns
\* 1..n: no try, the first exception ends the function (raised = its text)
RECURSIVE ExtractShows_script(_, _)
ExtractShows_script(show_columns, n) ==
    IF n = 0 THEN [shows |-> <<>>, raised |-> <<>>]
    ELSE
    LET sofar == ExtractShows_script(show_columns, n - 1)
        col == show_columns[n]
        parts == Split(col, <<" ", "-", " ">>)
    IN  IF sofar.raised # <<>> THEN sofar
        ELSE IF Len(parts) < 2 THEN [sofar EXCEPT !.raised = IndexError_list]
        ELSE
        LET city == Strip(parts[1])
            date == Split(parts[2], <<" ">>)[1]
        IN  IF strptime(date) # <<>>
            THEN [sofar EXCEPT !.shows = Append(@, [city |-> city, date |-> strptime(date),
                                                    price |-> NaN])]
            ELSE IF MatchesDateFormat(date) THEN [sofar EXCEPT !.raised = ValueError_day]
            ELSE [sofar EXCEPT !.raised = ValueError_format(date)]

\* process_inventory_file of all_products_for_upcoming_show.py:4-73 under the
\* try of its caller (lines 121-132), which prints str(e).  The genre map is
\* searched in its 'Band Name' column; the rows are those of the stream copy
\* with the price left ''.
process_inventory_file_script(idf, band, gdf) ==
    IF ~gdf.has_band_name THEN Aborted(<<Msg("error", KeyError_BandName)>>)
    ELSE
    LET match == SelectSeq(gdf.rows, LAMBDA r : r.Band_Name = band)
        show_columns == ShowColumns(idf.columns)
        ex == ExtractShows_script(show_columns, Len(show_columns))
    IN  IF match = <<>> THEN Aborted(<<Msg("error", IndexError_iloc)>>)
        ELSE IF ex.raised # <<>> THEN Aborted(<<Msg("error", ex.raised)>>)
        ELSE Returned(OutputRows_stream(idf.rows, Len(idf.rows), HasSkuColumn(idf),
                                        ex.shows, band, match[1].Genre, <<>>),
                      ex.shows, <<>>)

\* ---- inputs of process_inventory_file ----
MaxColumns == 3
MaxLines == 3

ShowHeaders == <<H_Boston, H_TShirt, H_NewYork, H_BadDate, H_BostonLate>>

Line(item, size, sku, ptype) ==
    [Item_Name |-> item, Size |-> size, SKU |-> sku, Product_Type |-> ptype]

SampleLines ==
    <<Line(Txt(I_TS), Txt(S_M), Txt(SKU_TSM), P_Tee),
      Line(NaText, NaText, NaText, P_Tee),
      Line(Txt(I_TS), Txt(S_M), NaText, P_Tee),
      Line(Txt(I_Hat), NaText, Txt(SKU_HAT), P_Hat),
      Line(Txt(I_Cap), Txt(S_L), Txt(SKU_XX), P_Hat),
      Line(Txt(I_TS), Txt(S_M), Txt(SKU_TSM), P_Tee)>>

\* the elements of all whose position is in S, in order
RECURSIVE Pick(_, _, _)
Pick(all, S, n) ==
    IF n = 0 THEN <<>>
    ELSE Pick(all, S, n - 1) \o (IF n \in S THEN <<all[n]>> ELSE <<>>)

Inventories ==
    {[columns |-> <<Col_ItemName, Col_Size>>
                  \o (IF has_sku THEN <<Col_SKU>> ELSE <<>>)
                  \o <<Col_ProductType>>
                  \o Pick(ShowHeaders, C, Len(ShowHeaders)),
      rows |-> Pick(SampleLines, L, Len(SampleLines))] :
        has_sku \in BOOLEAN,
        C \in {X \in SUBSET (1..Len(ShowHeaders)) : Cardinality(X) <= MaxColumns},
        L \in {X \in SUBSET (1..Len(SampleLines)) : Cardinality(X) <= MaxLines}}

GenreRow(mh, genre, name) == [MH_band |-> mh, Genre |-> genre, Band_Name |-> name]
GenreMaps ==
    {[has_band_name |-> TRUE,
      rows |-> <<GenreRow(B_ZZ, G_Pop, B_ZZ), GenreRow(B_AS \o MH_Suffix, G_Rock, B_AS)>>],
     [has_band_name |-> FALSE,
      rows |-> <<GenreRow(B_AS, G_Rock, <<>>)>>]}

Bands == {B_AS, B_AS \o MH_Suffix}

PriceRow(band, sku, price) == [Band_Name |-> band, SKU |-> sku, Price |-> price]
PriceLedgers ==
    {<<>>,
     <<PriceRow(B_ZZ, Txt(SKU_XX), Num(999)),
       PriceRow(B_AS, NaText, Num(100)),
       PriceRow(B_AS, Txt(SKU_TSM), Num(2500)),
       PriceRow(B_AS, Txt(SKU_TSM), Num(2600)),
       PriceRow(B_AS \o MH_Suffix, Txt(SKU_HAT), Num(3000))>>}

InventoryStart ==
    /\ inventory_df \in Inventories
    /\ band_name \in Bands
    /\ genre_df \in GenreMaps
    /\ price_df \in PriceLedgers
    /\ inv_pc = "input"
    /\ inv_result = NotRun

InventoryIdle ==
    /\ inventory_df = [columns |-> <<>>, rows |-> <<>>]
    /\ band_name = <<>>
    /\ genre_df = [has_band_name |-> FALSE, rows |-> <<>>]
    /\ price_df = <<>>
    /\ inv_pc = "idle"
    /\ inv_result = NotRun

\* the upload handler of prediction-streamlit.py running process_inventory_file
RunPredictionStreamlit ==
    /\ inv_pc = "input"
    /\ inv_result' = process_inventory_file(inventory_df, band_name, genre_df, price_df)
    /\ inv_pc' = "prediction-streamlit"
    /\ UNCHANGED <<inventory_df, band_name, genre_df, price_df>>
    /\ UNCHANGED non_inv_vars

\* the upload handler of stream_all_products_for_upcoming_show.py
RunStream ==
    /\ inv_pc = "input"
    /\ inv_result' = process_inventory_file_stream(inventory_df, band_name, genre_df, price_df)
    /\ inv_pc' = "stream"
    /\ UNCHANGED <<inventory_df, band_name, genre_df, price_df>>
    /\ UNCHANGED non_inv_vars

\* the main block of all_products_for_upcoming_show.py
RunScript ==
    /\ inv_pc = "input"
    /\ inv_result' = process_inventory_file_script(inventory_df, band_name, genre_df)
    /\ inv_pc' = "script"
    /\ UNCHANGED <<inventory_df, band_name, genre_df, price_df>>
    /\ UNCHANGED non_inv_vars

NextInventory == RunPredictionStreamlit \/ RunStream \/ RunScript

(***************************************************************************)
(* Properties of process_inventory_file                                    *)
(***************************************************************************)
InventoryDone == inv_pc \in {"prediction-streamlit", "stream"}

\* the lines with an item name, in file order
NamedLines(idf) == SelectSeq(idf.rows, LAMBDA l : notna(l.Item_Name))

\* a header that is a show column with a date that exists
IsValidShowColumn(col) ==
    /\ Contains(col, <<"-">>)
    /\ Len(Split(col, <<" ", "-", " ">>)) >= 2
    /\ strptime(Split(Split(col, <<" ", "-", " ">>)[2], <<" ">>)[1]) # <<>>

ValidShowColumns(idf) == SelectSeq(idf.columns, IsValidShowColumn)

HasGenre == \E k \in 1..Len(genre_df.rows) : genre_df.rows[k].MH_band = band_name

\* the output row of the p-th named line and the k-th of n valid shows
RowOf(p, k, n) == inv_result.rows[(p - 1) * n + k]

\* C6: for a band that has a genre, an inventory with at least one valid show
\* column and at least one named line is expanded to exactly
\* (named lines) x (valid show columns) rows, duplicates included
C6_RowCountIsLinesTimesShows ==
    (InventoryDone /\ HasGenre
     /\ Len(ValidShowColumns(inventory_df)) >= 1
     /\ Len(NamedLines(inventory_df)) >= 1)
    => /\ inv_result.returned
       /\ Len(inv_result.rows)
          = Len(NamedLines(inventory_df)) * Len(ValidShowColumns(inventory_df))

\* two valid show columns of the same city and date, two identical named
\* lines, an unnamed line and an invalid show column, expanded to four rows
C6_Witness ==
    /\ InventoryDone
    /\ inv_result.returned
    /\ Len(inv_result.rows) = 4
    /\ Len(NamedLines(inventory_df)) = 2
    /\ NamedLines(inventory_df)[1] = NamedLines(inventory_df)[2]
    /\ Len(inventory_df.rows) = 3
    /\ Len(inv_result.shows) = 2
    /\ inv_result.shows[1].city = inv_result.shows[2].city
    /\ inv_result.shows[1].date = inv_result.shows[2].date
    /\ \E c \in 1..Len(inventory_df.columns) : inventory_df.columns[c] = H_BadDate

\* an unresolved price: NaN or the empty text
Unresolved(price) == price.kind = "nan" \/ (price.kind = "str" /\ price.v = <<>>)

\* the ledger rows of the band (canonical name or alias form) with the line's SKU
LedgerMatches(line) ==
    LET canonical == BandNameForPrice(genre_df, band_name)
    IN  IF HasSkuColumn(inventory_df) /\ notna(line.SKU)
        THEN SelectSeq(price_df,
                       LAMBDA r : /\ \/ r.Band_Name = canonical
                                     \/ r.Band_Name = canonical \o MH_Suffix
                                  /\ SkuEquals(r.SKU, line.SKU))
        ELSE <<>>

PricedBySkuOnly(line, price) ==
    LET matches == LedgerMatches(line)
    IN  IF matches # <<>>
        THEN \E j \in 1..Len(matches) : matches[j].Price = price
        ELSE Unresolved(price)

\* C7: every output row carries the price of a ledger row of the band with the
\* line's SKU, and an unresolved price when the line has no SKU or no such row
C7_PriceBySkuOnly ==
    (InventoryDone /\ inv_result.returned)
    => LET lines == NamedLines(inventory_df)
           n == Len(ValidShowColumns(inventory_df))
       IN  \A p \in 1..Len(lines) :
             \A k \in 1..n : PricedBySkuOnly(lines[p], RowOf(p, k, n).product_price)

\* the header with the amount of its '($X.XX/head)' hint replaced
ChangeHint(col, amt) ==
    LET open == Find(col, <<"(", "$">>)
        rest == SubSeq(col, open + 2, Len(col))
        slash == Find(rest, <<"/">>)
    IN  IF open = 0 \/ slash = 0 THEN col
        ELSE SubSeq(col, 1, open + 1) \o amt \o SubSeq(rest, slash, Len(rest))

HintAmounts == {<<"9", ".", "9", "9">>, <<"f", "r", "e", "e">>}

WithHints(idf, amt) ==
    [columns |-> Column([c \in 1..Len(idf.columns) |-> ChangeHint(idf.columns[c], amt)],
                        Len(idf.columns)),
     rows |-> idf.rows]

\* the run of the variant that produced inv_result, on another inventory
Rerun(idf) ==
    IF inv_pc = "stream"
    THEN process_inventory_file_stream(idf, band_name, genre_df, price_df)
    ELSE process_inventory_file(idf, band_name, genre_df, price_df)

PriceColumn(result) ==
    Column([k \in 1..Len(result.rows) |-> result.rows[k].product_price],
           Len(result.rows))

\* C8: changing the amounts of the header hints leaves the product_price
\* column as it is, and the rows of one line carry one price across the shows
C8_HeaderHintNeverPrices ==
    InventoryDone
    => LET prices == PriceColumn(inv_result)
           n == Len(ValidShowColumns(inventory_df))
       IN  /\ \A amt \in HintAmounts :
                LET other == Rerun(WithHints(inventory_df, amt))
                IN  /\ other.returned = inv_result.returned
                    /\ PriceColumn(other) = prices
           /\ inv_result.returned
              => \A p \in 1..Len(NamedLines(inventory_df)) :
                   \A k \in 1..n :
                      RowOf(p, k, n).product_price = RowOf(p, 1, n).product_price

\* shows with the hints $7.00 and $8.50 and one without a hint, a line priced
\* from the ledger and a line left unresolved
C8_Witness ==
    /\ inv_pc = "prediction-streamlit"
    /\ inv_result.returned
    /\ \E a, b, c \in 1..Len(inv_result.shows) :
          /\ inv_result.shows[a].price = Num(700)
          /\ inv_result.shows[b].price = Num(850)
          /\ inv_result.shows[c].price = NaN
    /\ \E x, y \in 1..Len(inv_result.rows) :
          /\ inv_result.rows[x].product_price = Num(2500)
          /\ inv_result.rows[y].product_price = NaN

(***************************************************************************)
(* update_venue_details (prediction-streamlit.py:172-250; the copy in      *)
(* stream_all_products_for_upcoming_show.py:162-247 has the same logic)    *)
(***************************************************************************)
\* ---- the dict venue_lookup: items in insertion order ----
Item(key, entry) == [key |-> key, entry |-> entry]
HasKey(d, key) == \E k \in 1..Len(d) : d[k].key = key
Get(d, key) == d[CHOOSE k \in 1..Len(d) : d[k].key = key].entry

\* d[key] = entry: an existing key keeps its position and takes the new value
Put(d, key, entry) ==
    IF HasKey(d, key)
    THEN Column([k \in 1..Len(d) |-> IF d[k].key = key THEN Item(key, entry) ELSE d[k]],
                Len(d))
    ELSE Append(d, Item(key, entry))

\* d.setdefault(key, entry): an existing key keeps its value
PutIfAbsent(d, key, entry) == IF HasKey(d, key) THEN d ELSE Append(d, Item(key, entry))

\* a filter that lets the rows of every band through
BandShows_anyband(tdf, name_for_lookup) == tdf

\* band_shows (prediction-streamlit.py:174-175)
BandShows(tdf, name_for_lookup) ==
    SelectSeq(tdf, LAMBDA r : r.Band = name_for_lookup
                              \/ r.Band = name_for_lookup \o MH_Suffix)

\* the dict stored for one ledger row (prediction-streamlit.py:184-194)
VenueEntry(row) ==
    [venue |-> IF notna(row.Venue) THEN row.Venue.v ELSE <<>>,
     state |-> IF notna(row.ST) THEN row.ST.v ELSE <<>>,
     attendance |-> IF notna(row.Attn) THEN row.Attn ELSE Num(0)]

\* a build step that keeps the first entry of a key
InsertRow_keepfirst(d, row) ==
    IF isna(row.City) THEN d
    ELSE
    LET city == Strip(row.City.v)
        d1 == PutIfAbsent(d, Lower(city), VenueEntry(row))
        d2 == IF Contains(city, <<",">>)
              THEN PutIfAbsent(d1, Lower(Strip(Split(city, <<",">>)[1])), VenueEntry(row))
              ELSE d1
        first_word == Strip(Split(city, <<" ">>)[1])
    IN  IF Contains(city, <<" ">>) /\ Len(first_word) > 3
        THEN PutIfAbsent(d2, Lower(first_word), VenueEntry(row))
        ELSE d2

\* one iteration of the build loop (prediction-streamlit.py:179-204)
InsertRow(d, row) ==
    IF isna(row.City) THEN d
    ELSE
    LET city == Strip(row.City.v)
        d1 == Put(d, Lower(city), VenueEntry(row))
        d2 == IF Contains(city, <<",">>)
              THEN Put(d1, Lower(Strip(Split(city, <<",">>)[1])), Get(d1, Lower(city)))
              ELSE d1
        first_word == Strip(Split(city, <<" ">>)[1])
    IN  IF Contains(city, <<" ">>) /\ Len(first_word) > 3
        THEN Put(d2, Lower(first_word), Get(d2, Lower(city)))
        ELSE d2

\* the build loop over the rows 1..n of band_shows
RECURSIVE BuildLookup(_, _)
BuildLookup(band_shows, n) ==
    IF n = 0 THEN <<>> ELSE InsertRow(BuildLookup(band_shows, n - 1), band_shows[n])

\* the fallback pass (prediction-streamlit.py:206-212) over the keys 1..n of
\* the snapshot list(venue_lookup.keys())
RECURSIVE FallbackPass(_, _, _)
FallbackPass(d, keys, n) ==
    IF n = 0 THEN d
    ELSE
    LET sofar == FallbackPass(d, keys, n - 1)
        city_key == keys[n]
        base_city == Strip(Split(city_key, <<",">>)[1])
    IN  IF ~Contains(city_key, <<",">>) THEN sofar
        ELSE IF ~HasKey(sofar, base_city) THEN Put(sofar, base_city, Get(sofar, city_key))
        ELSE sofar

KeyList(d) == Column([k \in 1..Len(d) |-> d[k].key], Len(d))

\* venue_lookup as the update loop sees it
VenueLookup(tdf, name_for_lookup) ==
    LET band_shows == BandShows(tdf, name_for_lookup)
        built == BuildLookup(band_shows, Len(band_shows))
    IN  FallbackPass(built, KeyList(built), Len(built))

\* a fill that writes only the fields still at their default
Fill_onlydefaults(row, details) ==
    [row EXCEPT !.venue_name = IF @ = <<>> THEN details.venue ELSE @,
                !.venue_state = IF @ = <<>> THEN details.state ELSE @,
                !.attendance = IF @ = Num(0) THEN details.attendance ELSE @]

\* a fill that leaves the attendance as it was
Fill_noattendance(row, details) ==
    [row EXCEPT !.venue_name = details.venue,
                !.venue_state = details.state]

\* output_df.at[i, ...] = details[...] (prediction-streamlit.py:224-226)
Fill(row, details) ==
    [row EXCEPT !.venue_name = details.venue,
                !.venue_state = details.state,
                !.attendance = details.attendance]

\* a containment scan that does not stop at its first match
RECURSIVE ScanFrom_nobreak(_, _, _)
ScanFrom_nobreak(d, city, k) ==
    IF k > Len(d) THEN 0
    ELSE LET later == ScanFrom_nobreak(d, city, k + 1)
         IN  IF later # 0 THEN later
             ELSE IF Contains(d[k].key, city) \/ Contains(city, d[k].key) THEN k
             ELSE 0

\* the containment scan (prediction-streamlit.py:238-245) from item k on: the
\* position at which it breaks, 0 when it runs to the end
RECURSIVE ScanFrom(_, _, _)
ScanFrom(d, city, k) ==
    IF k > Len(d) THEN 0
    ELSE IF Contains(d[k].key, city) \/ Contains(city, d[k].key) THEN k
    ELSE ScanFrom(d, city, k + 1)

\* an update step that looks the city up as it is written
UpdateRow_casesensitive(row, d) ==
    IF isna(row.venue_city) THEN [row |-> row, warnings |-> <<>>]
    ELSE
    LET city == row.venue_city.v
    IN  IF HasKey(d, city) THEN [row |-> Fill(row, Get(d, city)), warnings |-> <<>>]
        ELSE IF Contains(city, <<",">>)
        THEN LET base_city == Strip(Split(city, <<",">>)[1])
             IN  IF HasKey(d, base_city)
                 THEN [row |-> Fill(row, Get(d, base_city)), warnings |-> <<>>]
                 ELSE [row |-> row, warnings |-> <<>>]
        ELSE LET at == ScanFrom(d, city, 1)
             IN  IF at # 0 THEN [row |-> Fill(row, d[at].entry), warnings |-> <<>>]
                 ELSE [row |-> row, warnings |-> <<row.venue_city.v>>]

\* one iteration of the update loop (prediction-streamlit.py:215-248): the
\* row after it and the warnings it showed
UpdateRow(row, d) ==
    IF isna(row.venue_city) THEN [row |-> row, warnings |-> <<>>]
    ELSE
    LET city == Lower(row.venue_city.v)
    IN  IF HasKey(d, city) THEN [row |-> Fill(row, Get(d, city)), warnings |-> <<>>]
        ELSE IF Contains(city, <<",">>)
        THEN LET base_city == Lower(Strip(Split(city, <<",">>)[1]))
             IN  IF HasKey(d, base_city)
                 THEN [row |-> Fill(row, Get(d, base_city)), warnings |-> <<>>]
                 ELSE [row |-> row, warnings |-> <<>>]
        ELSE LET at == ScanFrom(d, city, 1)
             IN  IF at # 0 THEN [row |-> Fill(row, d[at].entry), warnings |-> <<>>]
                 ELSE [row |-> row, warnings |-> <<row.venue_city.v>>]

\* an update loop that drops the records without a venue city
RECURSIVE UpdateRows_skipmissing(_, _, _)
UpdateRows_skipmissing(odf, d, n) ==
    IF n = 0 THEN [rows |-> <<>>, warnings |-> <<>>]
    ELSE LET before == UpdateRows_skipmissing(odf, d, n - 1)
             this == UpdateRow(odf[n], d)
         IN  IF isna(odf[n].venue_city) THEN before
             ELSE [rows |-> Append(before.rows, this.row),
                   warnings |-> before.warnings \o this.warnings]

\* the update loop over the rows 1..n
RECURSIVE UpdateRows(_, _, _)
UpdateRows(odf, d, n) ==
    IF n = 0 THEN [rows |-> <<>>, warnings |-> <<>>]
    ELSE LET before == UpdateRows(odf, d, n - 1)
             this == UpdateRow(odf[n], d)
         IN  [rows |-> Append(before.rows, this.row),
              warnings |-> before.warnings \o this.warnings]

\* ---- inputs of update_venue_details ----
MaxTourRows == 2
MaxRecords == 3

C_Troy == <<"T","r","o","y">>
C_TROY == <<"T","R","O","Y">>
C_TroyPadded == <<" ","t","r","o","y"," ">>
C_TroyNY == <<"T","r","o","y",","," ","N","Y">>
C_TroyME == <<"T","R","O","Y",","," ","M","E">>
C_OldTroyNY == <<"O","l","d"," ","T","r","o","y",","," ","N","Y">>
C_BathSpa == <<"B","a","t","h"," ","S","p","a">>
C_BathUK == <<"B","a","t","h",","," ","U","K">>
C_BathNbspSpa == <<"B","a","t","h",NBSP,"S","p","a">>
C_T == <<"T">>
C_Rome == <<"R","o","m","e">>
V_Hall == <<"H","a","l","l">>
V_Club == <<"C","l","u","b">>
V_Dome == <<"D","o","m","e">>
V_Pier == <<"P","i","e","r">>
ST_NY == <<"N","Y">>
ST_UK == <<"U","K">>

TourRow(band, city, venue, st, attn) ==
    [Band |-> band, City |-> city, Venue |-> venue, ST |-> st, Attn |-> attn]

SampleTourRows ==
    <<TourRow(B_AS, Txt(C_Troy), Txt(V_Hall), Txt(ST_NY), Num(100)),
      TourRow(B_AS \o MH_Suffix, Txt(C_TroyPadded), Txt(V_Club), NaText, NaN),
      TourRow(B_AS, Txt(C_TroyNY), Txt(V_Dome), Txt(ST_NY), Num(300)),
      TourRow(B_AS \o MH_Suffix, Txt(C_BathSpa), Txt(V_Pier), Txt(ST_UK), Num(400)),
      TourRow(B_AS, NaText, Txt(V_Hall), Txt(ST_NY), Num(500)),
      TourRow(B_ZZ, Txt(C_Rome), NaText, Txt(ST_NY), Num(600)),
      TourRow(B_AS \o MH_Suffix, Txt(C_BathUK), NaText, Txt(ST_UK), Num(700)),
      TourRow(B_AS, Txt(C_BathNbspSpa), Txt(V_Pier), Txt(ST_UK), Num(800))>>

Reverse(s) == Column([k \in 1..Len(s) |-> s[Len(s) + 1 - k]], Len(s))

\* ledgers of at most MaxTourRows sample rows, in either order
TourLedgers ==
    LET picks == {Pick(SampleTourRows, S, Len(SampleTourRows)) :
                    S \in {X \in SUBSET (1..Len(SampleTourRows)) :
                             Cardinality(X) <= MaxTourRows}}
    IN  picks \cup {Reverse(t) : t \in picks}

\* a record as the row expander leaves it (prediction-streamlit.py:154-166)
OutputRecord(city) ==
    [artistName |-> B_AS,
     Genre |-> G_Rock,
     showDate |-> <<9, 12, 2025>>,
     venue_name |-> <<>>,
     venue_city |-> city,
     venue_state |-> <<>>,
     attendance |-> Num(0),
     product_size |-> S_M,
     productType |-> P_Tee,
     product_price |-> NaN,
     Item_Name |-> Txt(I_TS)]

SampleRecords ==
    <<OutputRecord(Txt(C_TROY)),
      OutputRecord(Txt(C_TroyME)),
      OutputRecord(Txt(C_OldTroyNY)),
      OutputRecord(Txt(C_T)),
      OutputRecord(Txt(C_Rome)),
      OutputRecord(NaText),
      OutputRecord(Txt(C_BathUK)),
      OutputRecord(Txt(C_TroyNY))>>

ExpandedFiles ==
    {Pick(SampleRecords, S, Len(SampleRecords)) :
        S \in {X \in SUBSET (1..Len(SampleRecords)) : Cardinality(X) <= MaxRecords}}

\* records that already carry a venue name, a state or an attendance
V_Zoo == <<"Z","o","o">>
ST_ZZ == <<"Z","Z">>
SampleFilledRecords ==
    <<[OutputRecord(Txt(C_TROY)) EXCEPT !.venue_name = V_Zoo, !.venue_state = ST_ZZ,
                                        !.attendance = Num(9)],
      [OutputRecord(Txt(C_TroyME)) EXCEPT !.venue_name = V_Zoo],
      [OutputRecord(Txt(C_Rome)) EXCEPT !.attendance = Num(9)],
      [OutputRecord(NaText) EXCEPT !.venue_name = V_Zoo],
      [OutputRecord(Txt(C_T)) EXCEPT !.venue_state = ST_ZZ]>>

FilledFiles ==
    {Pick(SampleFilledRecords, S, Len(SampleFilledRecords)) :
        S \in {X \in SUBSET (1..Len(SampleFilledRecords)) : Cardinality(X) <= MaxRecords}}

\* update_venue_details called on records that were filled before
VenueStartFilled ==
    /\ tour_df \in TourLedgers
    /\ band_name_for_lookup \in Bands
    /\ output_df \in FilledFiles
    /\ venue_lookup = <<>>
    /\ venue_pc = "input"
    /\ warnings = <<>>

VenueStart ==
    /\ tour_df \in TourLedgers
    /\ band_name_for_lookup \in Bands
    /\ output_df \in ExpandedFiles
    /\ venue_lookup = <<>>
    /\ venue_pc = "input"
    /\ warnings = <<>>

VenueIdle ==
    /\ tour_df = <<>>
    /\ band_name_for_lookup = <<>>
    /\ output_df = <<>>
    /\ venue_lookup = <<>>
    /\ venue_pc = "idle"
    /\ warnings = <<>>

\* update_venue_details(output_df, tour_df, band_name, band_name_for_lookup)
update_venue_details ==
    /\ venue_pc = "input"
    /\ venue_lookup' = VenueLookup(tour_df, band_name_for_lookup)
    /\ LET updated == UpdateRows(output_df, venue_lookup', Len(output_df))
       IN  /\ output_df' = updated.rows
           /\ warnings' = updated.warnings
    /\ venue_pc' = "done"
    /\ UNCHANGED <<tour_df, band_name_for_lookup>>
    /\ UNCHANGED non_venue_vars

NextVenue == update_venue_details

\* process_inventory_file has run, in any of its three copies
InventoryRan == inv_pc \in {"prediction-streamlit", "stream", "script"}

\* the rows of the genre map for the selected band, in the key column the
\* copy that ran searches
GenreRowsOfBand ==
    IF inv_pc = "script"
    THEN SelectSeq(genre_df.rows,
                   LAMBDA r : genre_df.has_band_name /\ r.Band_Name = band_name)
    ELSE SelectSeq(genre_df.rows, LAMBDA r : r.MH_band = band_name)

\* C14: without a genre row for the band the file fails, with no output rows
\* and an error that names the band; with a genre row every output row
\* carries that row's genre
C14_MissingGenreFailsFile ==
    InventoryRan
    => IF GenreRowsOfBand = <<>>
       THEN /\ ~inv_result.returned
            /\ inv_result.rows = <<>>
            /\ \E k \in 1..Len(inv_result.messages) :
                  /\ inv_result.messages[k].level = "error"
                  /\ Contains(inv_result.messages[k].about, band_name)
       ELSE \A k \in 1..Len(inv_result.rows) :
               inv_result.rows[k].Genre = GenreRowsOfBand[1].Genre

\* the date token of a header 'City - MM/DD/YY ...'
DateToken(col) == Split(Split(col, <<" ", "-", " ">>)[2], <<" ">>)[1]

HasSeparator(col) == Contains(col, <<" ", "-", " ">>)

\* the final error 'No valid show dates found in inventory file'
NoShowsError == Msg("error", <<>>)

\* C15: for a band with a genre, the file is failed exactly when no show
\* column parses; malformed columns next to a valid one do not fail it
C15_FailsOnlyWithoutValidShow ==
    (InventoryDone /\ HasGenre)
    => /\ inv_result.returned <=> Len(ValidShowColumns(inventory_df)) >= 1
       /\ ~inv_result.returned
          => inv_result.messages[Len(inv_result.messages)] = NoShowsError

\* a result is returned for a file with one valid show column, one column
\* with an impossible date and one column without the separator
C15_Witness ==
    /\ InventoryDone
    /\ inv_result.returned
    /\ Len(inv_result.shows) = 1
    /\ \E a, b \in 1..Len(inventory_df.columns) :
          /\ inventory_df.columns[a] = H_BadDate
          /\ inventory_df.columns[b] = H_TShirt

\* the messages about a text
MessagesAbout(text) == SelectSeq(inv_result.messages, LAMBDA msg : msg.about = text)

\* the errors reported for columns (all errors but the final one)
ColumnErrors ==
    SelectSeq(inv_result.messages, LAMBDA msg : msg.level = "error" /\ msg # NoShowsError)

\* C16: a column without ' - ' yields no message, and the columns with ' - '
\* are the ones that yield a show or an error
C16_ShowColumnIffSeparator ==
    (InventoryDone /\ HasGenre)
    => /\ \A c \in 1..Len(inventory_df.columns) :
             ~HasSeparator(inventory_df.columns[c])
             => MessagesAbout(inventory_df.columns[c]) = <<>>
       /\ Len(ValidShowColumns(inventory_df)) + Len(ColumnErrors)
          = Len(SelectSeq(inventory_df.columns, HasSeparator))

\* C17: every show column whose date token does not parse is reported as an
\* error, the file is still returned when another column parses, and the
\* shows are the valid columns in column order
C17_BadDateSkippedOrderKept ==
    (InventoryDone /\ HasGenre)
    => LET valid == ValidShowColumns(inventory_df)
       IN  /\ \A c \in 1..Len(inventory_df.columns) :
                LET col == inventory_df.columns[c]
                IN  (HasSeparator(col) /\ strptime(DateToken(col)) = <<>>)
                    => \E k \in 1..Len(inv_result.messages) :
                          /\ inv_result.messages[k].level = "error"
                          /\ inv_result.messages[k].about \in {col, DateToken(col)}
           /\ valid # <<>>
              => /\ inv_result.returned
                 /\ Len(inv_result.shows) = Len(valid)
                 /\ \A k \in 1..Len(valid) :
                       /\ inv_result.shows[k].city
                          = Strip(Split(valid[k], <<" ", "-", " ">>)[1])
                       /\ inv_result.shows[k].date = strptime(DateToken(valid[k]))

\* a column with an impossible date between the columns of NY and Bo: the
\* shows are NY, then Bo, and the date is reported
C17_Witness ==
    /\ InventoryDone
    /\ inv_result.returned
    /\ Len(inv_result.shows) = 2
    /\ inv_result.shows[1].city = <<"N", "Y">>
    /\ inv_result.shows[2].city = <<"B", "o">>
    /\ \E c \in 1..Len(inventory_df.columns) : inventory_df.columns[c] = H_BadDate
    /\ \E k \in 1..Len(inv_result.messages) : inv_result.messages[k].level = "error"

(***************************************************************************)
(* Properties of update_venue_details                                      *)
(***************************************************************************)
VenueDone == venue_pc = "done"

MinOf(S) == CHOOSE x \in S : \A y \in S : x <= y
MaxOf(S) == CHOOSE x \in S : \A y \in S : x >= y

\* the record carries the venue, state and attendance of the entry
FilledFrom(row, entry) ==
    /\ row.venue_name = entry.venue
    /\ row.venue_state = entry.state
    /\ row.attendance = entry.attendance

\* the record is as the row expander left it
LeftAtDefault(row) ==
    /\ row.venue_name = <<>>
    /\ row.venue_state = <<>>
    /\ row.attendance = Num(0)

\* the positions of the items whose key is a substring of the city or contains it
ScanHits(d, city) ==
    {k \in 1..Len(d) : Contains(d[k].key, city) \/ Contains(city, d[k].key)}

BeforeComma(city) == Lower(Strip(Split(city, <<",">>)[1]))

CascadeHolds(row) ==
    LET city == Lower(row.venue_city.v)
        d == venue_lookup
    IN  IF HasKey(d, city) THEN FilledFrom(row, Get(d, city))
        ELSE IF Contains(city, <<",">>)
        THEN IF HasKey(d, BeforeComma(city))
             THEN FilledFrom(row, Get(d, BeforeComma(city)))
             ELSE LeftAtDefault(row)
        ELSE IF ScanHits(d, city) # {}
        THEN FilledFrom(row, d[MinOf(ScanHits(d, city))].entry)
        ELSE LeftAtDefault(row)

\* C9: every record with a city is filled from the entry of its lower-cased
\* city when that is a key; else, when the city has a comma, from the entry of
\* the part before the comma; else from the first item of the map whose key is
\* a substring of the city or contains it; and is left as it was when the
\* step that applies finds nothing
C9_LookupCascade ==
    VenueDone
    => \A r \in 1..Len(output_df) :
          notna(output_df[r].venue_city) => CascadeHolds(output_df[r])

\* one record matched by its full city, one by the part before its comma, and
\* one by the scan, which had two items with different entries to choose from
C9_Witness ==
    /\ VenueDone
    /\ \E a, b, c \in 1..Len(output_df) :
          LET d == venue_lookup
              A == Lower(output_df[a].venue_city.v)
              B == Lower(output_df[b].venue_city.v)
              C == Lower(output_df[c].venue_city.v)
          IN  /\ notna(output_df[a].venue_city) /\ HasKey(d, A)
              /\ notna(output_df[b].venue_city) /\ ~HasKey(d, B)
              /\ Contains(B, <<",">>) /\ HasKey(d, BeforeComma(B))
              /\ notna(output_df[c].venue_city) /\ ~HasKey(d, C)
              /\ ~Contains(C, <<",">>)
              /\ \E x, y \in ScanHits(d, C) : d[x].entry # d[y].entry
              /\ output_df[c].venue_name # <<>>

\* the ledger row inserts the key
Produces(row, key) ==
    /\ notna(row.City)
    /\ LET city == Strip(row.City.v)
           first_word == Strip(Split(city, <<" ">>)[1])
       IN  \/ key = Lower(city)
           \/ Contains(city, <<",">>) /\ key = Lower(Strip(Split(city, <<",">>)[1]))
           \/ Contains(city, <<" ">>) /\ Len(first_word) > 3 /\ key = Lower(first_word)

\* the positions in band_shows of the rows that insert the key
Producers(key) ==
    LET band_shows == BandShows(tour_df, band_name_for_lookup)
    IN  {j \in 1..Len(band_shows) : Produces(band_shows[j], key)}

EntryOfRow(j) == VenueEntry(BandShows(tour_df, band_name_for_lookup)[j])

\* C10 as stated: every key of the final map carries the entry of the first
\* ledger row that produced it
C10_FirstRowWins ==
    VenueDone
    => \A k \in 1..Len(venue_lookup) :
          /\ Producers(venue_lookup[k].key) # {}
          /\ venue_lookup[k].entry = EntryOfRow(MinOf(Producers(venue_lookup[k].key)))

\* C10 amended: a later insertion overwrites an earlier one, so every key of
\* the final map carries the entry of the last ledger row that produced it
C10_LastRowWins ==
    VenueDone
    => \A k \in 1..Len(venue_lookup) :
          /\ Producers(venue_lookup[k].key) # {}
          /\ venue_lookup[k].entry = EntryOfRow(MaxOf(Producers(venue_lookup[k].key)))

\* a key produced by two ledger rows with different entries
C10_Witness ==
    /\ VenueDone
    /\ \E k \in 1..Len(venue_lookup) :
          \E j1, j2 \in Producers(venue_lookup[k].key) :
             /\ j1 < j2
             /\ EntryOfRow(j1) # EntryOfRow(j2)
             /\ venue_lookup[k].entry = EntryOfRow(j2)

\* the city is a key in no form: not as it is, not by the part before its
\* comma, and no key is a substring of it or contains it
NoForm(row) ==
    LET city == Lower(row.venue_city.v)
        d == venue_lookup
    IN  /\ ~HasKey(d, city)
        /\ ~(Contains(city, <<",">>) /\ HasKey(d, BeforeComma(city)))
        /\ ScanHits(d, city) = {}

\* a step of the cascade finds an entry for the city
MatchedByCascade(row) ==
    LET city == Lower(row.venue_city.v)
        d == venue_lookup
    IN  \/ HasKey(d, city)
        \/ Contains(city, <<",">>) /\ HasKey(d, BeforeComma(city))
        \/ ~Contains(city, <<",">>) /\ ScanHits(d, city) # {}

\* the number of warnings that name the city
WarningsAbout(city) == Len(SelectSeq(warnings, LAMBDA w : w = city))

\* the records that carry the city
RecordsOf(city) ==
    {q \in 1..Len(output_df) : notna(output_df[q].venue_city)
                               /\ output_df[q].venue_city.v = city}

\* C11: a record whose city is in the ledger in no form keeps the default
\* venue name, state and attendance and has exactly one warning naming its
\* city; a matched record has none
C11_UnmatchedWarnsOnce ==
    VenueDone
    => \A r \in 1..Len(output_df) :
          notna(output_df[r].venue_city)
          => LET row == output_df[r]
             IN  /\ NoForm(row)
                    => /\ LeftAtDefault(row)
                       /\ WarningsAbout(row.venue_city.v)
                          = Cardinality(RecordsOf(row.venue_city.v))
                 /\ MatchedByCascade(row) => WarningsAbout(row.venue_city.v) = 0

\* the target band has a ledger row with the city '<City>, <ST>'
LedgerHasCommaCity(city) ==
    LET band_shows == BandShows(tour_df, band_name_for_lookup)
    IN  \E j \in 1..Len(band_shows) :
           /\ notna(band_shows[j].City)
           /\ Contains(Strip(band_shows[j].City.v), <<",">>)
           /\ Lower(Strip(Split(Strip(band_shows[j].City.v), <<",">>)[1])) = city

\* C12: when the target band has a ledger row '<City>, <ST>', a record whose
\* city is <City> in any letter case finds the key <city> in the map and
\* carries the venue, state and attendance of the last ledger row that
\* produced that key
C12_CommaStrippedKeyMatches ==
    VenueDone
    => \A r \in 1..Len(output_df) :
          (notna(output_df[r].venue_city)
           /\ LedgerHasCommaCity(Lower(output_df[r].venue_city.v)))
          => LET key == Lower(output_df[r].venue_city.v)
             IN  /\ HasKey(venue_lookup, key)
                 /\ FilledFrom(output_df[r], EntryOfRow(MaxOf(Producers(key))))

\* the ledger holds 'Troy, NY' only, the record 'TROY' is filled from it
C12_Witness ==
    /\ VenueDone
    /\ Len(BandShows(tour_df, band_name_for_lookup)) = 1
    /\ LedgerHasCommaCity(Lower(C_TROY))
    /\ \E r \in 1..Len(output_df) :
          /\ output_df[r].venue_city = Txt(C_TROY)
          /\ output_df[r].venue_name = V_Dome
          /\ output_df[r].attendance = Num(300)

\* what the cascade finds for a lower-cased city in the map d
CascadeEntry(d, city) ==
    IF HasKey(d, city) THEN [found |-> TRUE, entry |-> Get(d, city)]
    ELSE IF Contains(city, <<",">>)
    THEN IF HasKey(d, BeforeComma(city))
         THEN [found |-> TRUE, entry |-> Get(d, BeforeComma(city))]
         ELSE [found |-> FALSE]
    ELSE IF ScanHits(d, city) # {}
    THEN [found |-> TRUE, entry |-> d[MinOf(ScanHits(d, city))].entry]
    ELSE [found |-> FALSE]

SameVenueFields(after, before) ==
    /\ after.venue_name = before.venue_name
    /\ after.venue_state = before.venue_state
    /\ after.attendance = before.attendance

IsBandRow(r) ==
    \/ r.Band = band_name_for_lookup
    \/ r.Band = band_name_for_lookup \o <<" ", "(", "M", "H", ")">>

\* the text before the first character of the set, the whole text without one
BeforeFirst(text, chars) ==
    LET at == {k \in 1..Len(text) : text[k] \in chars}
    IN  IF at = {} THEN text ELSE SubSeq(text, 1, MinOf(at) - 1)

\* the keys a city gives: the city, the part before its comma, and its first
\* token (the text before the first delimiter) when it has more than one and
\* the first is longer than 3 characters
DerivedKeys(field, delimiters) ==
    LET city == Strip(field)
        token == BeforeFirst(city, delimiters)
    IN  {Lower(city)}
        \cup (IF city # BeforeFirst(city, {","})
              THEN {Lower(Strip(BeforeFirst(city, {","})))} ELSE {})
        \cup (IF city # token /\ Len(token) > 3 THEN {Lower(token)} ELSE {})

\* the ledger rows of the target band that name a city
CityRowsOfBand == {j \in 1..Len(tour_df) : IsBandRow(tour_df[j]) /\ notna(tour_df[j].City)}

\* the keys of the map are exactly the keys derived from the cities of the
\* ledger rows of the target band, and every entry is the entry of such a row
KeysFromBandRows(delimiters) ==
    /\ {venue_lookup[k].key : k \in 1..Len(venue_lookup)}
         = UNION {DerivedKeys(tour_df[j].City.v, delimiters) : j \in CityRowsOfBand}
    /\ \A k \in 1..Len(venue_lookup) :
          \E j \in CityRowsOfBand :
             /\ venue_lookup[k].key \in DerivedKeys(tour_df[j].City.v, delimiters)
             /\ venue_lookup[k].entry = VenueEntry(tour_df[j])

C27_DefaultsOrOneEntry ==
    VenueDone
    => \A r \in 1..Len(output_df) :
          \/ LeftAtDefault(output_df[r])
          \/ \E j \in CityRowsOfBand : FilledFrom(output_df[r], VenueEntry(tour_df[j]))

\* a record filled from a row without attendance, in a ledger with a second
\* row of the band that has another venue
C27_Witness ==
    /\ VenueDone
    /\ \E r \in 1..Len(output_df) :
          \E j, k \in CityRowsOfBand :
             /\ isna(tour_df[j].Attn)
             /\ ~LeftAtDefault(output_df[r])
             /\ FilledFrom(output_df[r], VenueEntry(tour_df[j]))
             /\ output_df[r].attendance = Num(0)
             /\ VenueEntry(tour_df[k]).venue # VenueEntry(tour_df[j]).venue

\* the fields update_venue_details does not write
OtherFields(row) ==
    <<row.artistName, row.Genre, row.showDate, row.venue_city, row.product_size,
      row.productType, row.product_price, row.Item_Name>>

\* C28: update_venue_details keeps the number and the order of the records and
\* every field other than venue name, venue state and attendance, and leaves
\* a record without a venue city as it was
C28_OnlyVenueFieldsChange ==
    [][update_venue_details
       => /\ Len(output_df') = Len(output_df)
          /\ \A r \in 1..Len(output_df) :
                /\ OtherFields(output_df'[r]) = OtherFields(output_df[r])
                /\ isna(output_df[r].venue_city) => output_df'[r] = output_df[r]]_vars

\* a record without a city that kept what it carried, next to a record that
\* was filled from the ledger
C28_Witness ==
    /\ VenueDone
    /\ \E r, q \in 1..Len(output_df) :
          /\ isna(output_df[r].venue_city)
          /\ output_df[r].venue_name = V_Zoo
          /\ notna(output_df[q].venue_city)
          /\ output_df[q].venue_name \notin {<<>>, V_Zoo}

(***************************************************************************)
(* Specifications: one per component, the other components idle            *)
(***************************************************************************)
InitService == ServiceStart /\ InventoryIdle /\ VenueIdle /\ ProbeIdle
SpecService == InitService /\ [][NextService]_vars

InitInventory == ServiceIdle /\ InventoryStart /\ VenueIdle /\ ProbeIdle
SpecInventory == InitInventory /\ [][NextInventory]_vars

InitVenue == ServiceIdle /\ InventoryIdle /\ VenueStart /\ ProbeIdle
SpecVenue == InitVenue /\ [][NextVenue]_vars

InitVenueFilled == ServiceIdle /\ InventoryIdle /\ VenueStartFilled /\ ProbeIdle
SpecVenueFilled == InitVenueFilled /\ [][NextVenue]_vars

InitProbes == ServiceStartWith(ProbeRequests) /\ InventoryIdle /\ VenueIdle /\ ProbeIdle
SpecProbes == InitProbes /\ [][NextProbes]_vars

====
